---- MODULE Spec2Model ----
(***************************************************************************)
(* FARIS analysis pipeline (app/core/graph): the LangGraph stage graph of   *)
(* orchestrator.py and the nodes it wires together.                         *)
(*                                                                          *)
(* Numbers are fixed point.  Confidences, failure-type weights and severity *)
(* multipliers are in hundredths, domain multipliers in tenths, so a        *)
(* contribution confidence * weight * severity * domain is an integer in    *)
(* units of 10^-7 (RiskUnit).  A stored risk_score is in thousandths, as    *)
(* round(x, 3) leaves it.                                                   *)
(***************************************************************************)
EXTENDS Integers, Sequences, FiniteSets, TLC

\* ------------------------------------------------------------------ bounds
\* Backend faults (failed call, unparsable or ill-typed output) per run.
MaxFaults == 1
\* Number of entries of DomainOrder a run may be given.
MaxDomains == 3
\* Number of entries of ScoreShapes a detector may report under ScoreSpec.
MaxShapes == 7
\* Number of detectors that may report anything but the first entry of
\* ScoreShapes (nothing found) under ScoreSpec.
MaxReporting == 3
\* Number of times aggregation and risk scoring are run on one state under
\* RerunSpec.
MaxRuns == 2
\* Length, in tokens, of the text the backend may answer with under ClientSpec.
MaxTokens == 4

\* --------------------------------------------------------------- constants
None == "None"
\* A confidence the backend returned that is not a number (e.g. "high").
NotANumber == -1000

\* settings.failure_confidence_threshold, hundredths
failure_confidence_threshold == 50

\* 1.0 in units of 10^-7
RiskUnit == 10000000

\* signal_keys of aggregation_node, the argument order of asyncio.gather
signal_keys ==
  << "hallucination_signal", "logical_signal", "assumptions_signal",
     "overconfidence_signal", "scope_signal", "underspec_signal" >>

SignalKeySet == { signal_keys[i] : i \in 1..Len(signal_keys) }

\* failure_type each detector writes into its signal
FailureTypeOf ==
  [ hallucination_signal  |-> "hallucination",
    logical_signal        |-> "logical_inconsistency",
    assumptions_signal    |-> "missing_assumptions",
    overconfidence_signal |-> "overconfidence",
    scope_signal          |-> "scope_violation",
    underspec_signal      |-> "underspecification" ]

\* node name each detector uses in node_times and errors
DetectorNodeOf ==
  [ hallucination_signal  |-> "hallucination_detector",
    logical_signal        |-> "logical_detector",
    assumptions_signal    |-> "assumptions_detector",
    overconfidence_signal |-> "overconfidence_detector",
    scope_signal          |-> "scope_detector",
    underspec_signal      |-> "underspec_detector" ]

\* Settings.failure_weights, hundredths
failure_weights ==
  [ hallucination         |-> 35,
    logical_inconsistency |-> 25,
    missing_assumptions   |-> 20,
    overconfidence        |-> 10,
    scope_violation       |-> 5,
    underspecification    |-> 5 ]

\* Settings.domain_multipliers, tenths
domain_multipliers ==
  [ general |-> 10, finance |-> 15, medical |-> 20, legal |-> 18, code |-> 13 ]

\* severity_multipliers of risk_scoring_node, hundredths
severity_multipliers ==
  [ low |-> 25, medium |-> 50, high |-> 75, critical |-> 100 ]

DomainOrder == << "general", "medical", "code", "finance", "legal" >>

Domains == { DomainOrder[i] : i \in 1..MaxDomains }

\* ------------------------------------------------------------------ inputs
\* A text is modelled by what the pipeline looks at: its length, whether it
\* is only whitespace, and which phrase patterns it contains.
\* sentences holds the lengths of the pieces re.split(r'(?<=[.!?])\s+') gives.
Text(len, blank, refusal, error, sentences) ==
  [ len |-> len, blank |-> blank, refusal |-> refusal, error |-> error,
    sentences |-> sentences ]

EmptyText == Text(0, TRUE, FALSE, FALSE, << 0 >>)

Questions == { EmptyText,                                  \* ""
               Text(3, TRUE, FALSE, FALSE, << 0 >>),       \* "   "
               Text(12, FALSE, FALSE, FALSE, << 12 >>) }   \* "What is 2+2?"

Answers == { EmptyText,                                    \* ""
             Text(2, TRUE, FALSE, FALSE, << 0 >>),         \* " \n"
             Text(40, FALSE, TRUE, FALSE, << 40 >>),       \* "I cannot help with that request, sorry."
             Text(60, FALSE, FALSE, TRUE, << 6, 53 >>),    \* "Error: connection refused ..."
             Text(19, FALSE, FALSE, FALSE, << 5, 13 >>),   \* "Easy. 2+2 equals 4."
             Text(8, FALSE, FALSE, FALSE, << 4, 3 >>),     \* "Yes. No."
             Text(43, FALSE, TRUE, TRUE, << 43 >>),        \* "Error: I cannot answer, something is wrong."
             Text(250, FALSE, TRUE, TRUE, << 250 >>),      \* the same phrases in 250 characters
             Text(285, FALSE, FALSE, FALSE,                \* 22 sentences of 12 characters
                  [ i \in 1..22 |-> 12 ]) }

\* The answer every domain is tried with; the other answers differ from it in
\* what precheck and the sentence split see, and run in the first domain.
PlainAnswer == Text(19, FALSE, FALSE, FALSE, << 5, 13 >>)

\* str.strip(): a whitespace-only text becomes the empty text
strip(t) == IF t.blank THEN EmptyText ELSE t

\* ------------------------------------------------------ backend responses
\* What llm.generate_structured gives a caller: it raises, it returns the
\* sentinel {"_parse_error": True}, or it returns the parsed object.
PrecheckResponses ==
  { [kind |-> "raise",       is_valid |-> TRUE,  proceed |-> TRUE,  reason |-> None],
    [kind |-> "parse_error", is_valid |-> TRUE,  proceed |-> TRUE,  reason |-> None],
    [kind |-> "parsed",      is_valid |-> TRUE,  proceed |-> TRUE,  reason |-> None],
    [kind |-> "parsed",      is_valid |-> FALSE, proceed |-> TRUE,  reason |-> "gibberish"],
    [kind |-> "parsed",      is_valid |-> TRUE,  proceed |-> FALSE, reason |-> None] }

\* reasoning_chain is "list" when the object holds a list of strings there
\* and "scalar" when it holds a number.
DecompositionResponses ==
  { [kind |-> "raise",       nclaims |-> 0, reasoning_chain |-> "list"],
    [kind |-> "parse_error", nclaims |-> 0, reasoning_chain |-> "list"],
    [kind |-> "parsed",      nclaims |-> 2, reasoning_chain |-> "list"],
    [kind |-> "parsed",      nclaims |-> 2, reasoning_chain |-> "scalar"] }

\* evidence: "none" is the empty list, "text" a list of strings, "nonstr" a
\* list holding a value that is not a string.
DetectorResponse(kind, detected, confidence, severity, evidence) ==
  [ kind |-> kind, detected |-> detected, confidence |-> confidence,
    severity |-> severity, evidence |-> evidence ]

DetectorResponses ==
  { DetectorResponse("raise", FALSE, 0, "low", "none"),
    DetectorResponse("parse_error", FALSE, 0, "low", "none"),
    DetectorResponse("parsed", FALSE, 0, "low", "none"),
    DetectorResponse("parsed", TRUE, 85, "high", "text"),
    DetectorResponse("parsed", TRUE, NotANumber, "medium", "text"),
    DetectorResponse("parsed", FALSE, NotANumber, "medium", "text"),
    DetectorResponse("parsed", TRUE, 85, "high", "nonstr"),
    DetectorResponse("parsed", TRUE, 150, "high", "text") }


VARIABLES
  pc,                       \* node the graph runs next, "done", or "raised"
  trace,                    \* nodes executed so far, in order
  faults,                   \* backend faults so far in this run
  question, answer, domain, \* inputs
  precheck_passed, precheck_failure_reason, answer_type,
  claims, assumptions, reasoning_steps,
  tasks,                    \* the six coroutines awaited by asyncio.gather
  signals,                  \* the six signal slots of the state
  failure_signals, detected_failures, failure_detected, failure_types,
  risk_score, risk_level, domain_multiplier, contributing_factors,
  explanation, recommendations,
  errors, node_times, end_time,
  backend,                  \* what each stage's generate_structured call gave it
  client,                   \* one generate_structured call inside OllamaClient
  service,                  \* one AnalysisService.analyze call after its pipeline run
  invocations,              \* run_analysis calls under way together, and what they share
  request                   \* one POST to the analyze endpoint

vars ==
  << pc, trace, faults, question, answer, domain,
     precheck_passed, precheck_failure_reason, answer_type,
     claims, assumptions, reasoning_steps, tasks, signals,
     failure_signals, detected_failures, failure_detected, failure_types,
     risk_score, risk_level, domain_multiplier, contributing_factors,
     explanation, recommendations, errors, node_times, end_time,
     backend, client, service, invocations, request >>

inputVars == << question, answer, domain >>
precheckVars == << precheck_passed, precheck_failure_reason, answer_type >>
decompositionVars == << claims, assumptions, reasoning_steps >>
aggregationVars == << failure_signals, detected_failures, failure_detected, failure_types >>
riskVars == << risk_score, risk_level, domain_multiplier, contributing_factors >>

\* The stages that call llm.generate_structured, by the name each uses in
\* node_times and errors.
Stages ==
  {"precheck", "decomposition", "explanation", "recommendation"}
    \cup { DetectorNodeOf[k] : k \in SignalKeySet }

\* A stage that has not called the backend.
NoCall == [ kind |-> "none" ]

\* The client while no call is under way.
IdleClient ==
  [ pc |-> "idle", attempts |-> 0, failure |-> None, exception |-> None,
    response |-> << >>, result |-> [ kind |-> "none", text |-> << >> ] ]

\* The service while analyze is not past its run_analysis call.
IdleService ==
  [ pc |-> "idle", persist |-> FALSE, has_repo |-> FALSE, response |-> None,
    calls |-> << >>, at |-> 0, rows |-> << >>, failed |-> None,
    logged |-> FALSE, returned |-> None ]

\* No run_analysis call has been made: the module globals hold None.
NoInvocations ==
  [ compiled_graph |-> FALSE, llm_client |-> FALSE, lists |-> << >>, state |-> << >> ]

\* The run was not started by a request to the API.
NoRequest ==
  [ pc |-> "none", status |-> 0, question |-> None, llm_answer |-> None,
    validated |-> None ]

\* The value of a signal slot that holds None.
NoSignal ==
  [ failure_type |-> None, detected |-> FALSE, confidence |-> 0,
    severity |-> "low", evidence |-> "none" ]

\* A coroutine handed to asyncio.gather: not yet created ("idle"), awaited
\* ("pending"), returned its update dict, or raised.  has_errors tells
\* whether the returned dict has an "errors" key.
IdleTask ==
  [ status |-> "idle", signal |-> NoSignal, has_errors |-> FALSE, errors |-> << >> ]

\* create_initial_state, for the arguments of run_analysis
Init ==
  /\ pc = "precheck"
  /\ trace = << >>
  /\ faults = 0
  /\ question \in Questions
  /\ answer \in Answers
  /\ domain \in Domains
  /\ answer # PlainAnswer => domain = DomainOrder[1]
  /\ precheck_passed = FALSE
  /\ precheck_failure_reason = None
  /\ answer_type = "unknown"
  /\ claims = << >>
  /\ assumptions = {}
  /\ reasoning_steps = "empty"
  /\ tasks = [ k \in SignalKeySet |-> IdleTask ]
  /\ signals = [ k \in SignalKeySet |-> NoSignal ]
  /\ failure_signals = << >>
  /\ detected_failures = << >>
  /\ failure_detected = FALSE
  /\ failure_types = << >>
  /\ risk_score = 0
  /\ risk_level = "low"
  /\ domain_multiplier = 10
  /\ contributing_factors = << >>
  /\ explanation = << >>
  /\ recommendations = << >>
  /\ errors = << >>
  /\ node_times = {}
  /\ end_time = 0
  /\ backend = [ s \in Stages |-> NoCall ]
  /\ client = IdleClient
  /\ service = IdleService
  /\ invocations = NoInvocations
  /\ request = NoRequest

\* ------------------------------------------------------------------ precheck
\* any(pattern in answer_lower for pattern in refusal_patterns) and len < 200
ShortRefusal(a) == a.refusal /\ a.len < 200

\* any(pattern in answer_lower for pattern in error_patterns) and len < 500
ShortError(a) == a.error /\ a.len < 500

\* An entry of the errors list.
ErrorEntry(node) == [ node |-> node ]

\* A backend response that is not what the prompt asked for.
PrecheckFault(r) == r.kind # "parsed"

\* precheck_node without its "if not answer" rule.
PrecheckResultNoEmptyAnswer(q, a, r) ==
  IF q.blank THEN
    [ precheck_passed |-> FALSE, precheck_failure_reason |-> "Question is empty",
      answer_type |-> "invalid", llm |-> FALSE, error |-> FALSE ]
  ELSE IF ShortRefusal(a) THEN
    [ precheck_passed |-> TRUE, precheck_failure_reason |-> None,
      answer_type |-> "refusal", llm |-> FALSE, error |-> FALSE ]
  ELSE IF ShortError(a) THEN
    [ precheck_passed |-> FALSE,
      precheck_failure_reason |-> "Answer appears to be an error message",
      answer_type |-> "error", llm |-> FALSE, error |-> FALSE ]
  ELSE IF r.kind = "raise" THEN
    [ precheck_passed |-> TRUE, precheck_failure_reason |-> None,
      answer_type |-> "response", llm |-> TRUE, error |-> TRUE ]
  ELSE IF r.kind = "parse_error" THEN
    [ precheck_passed |-> TRUE, precheck_failure_reason |-> None,
      answer_type |-> "response", llm |-> TRUE, error |-> FALSE ]
  ELSE
    [ precheck_passed |-> r.is_valid /\ r.proceed,
      precheck_failure_reason |->
        IF ~(r.is_valid /\ r.proceed) THEN r.reason ELSE None,
      answer_type |-> "response", llm |-> TRUE, error |-> FALSE ]

\* precheck_node rejecting when the output cannot be parsed.
PrecheckResultFailClosed(q, a, r) ==
  IF q.blank THEN
    [ precheck_passed |-> FALSE, precheck_failure_reason |-> "Question is empty",
      answer_type |-> "invalid", llm |-> FALSE, error |-> FALSE ]
  ELSE IF a.blank THEN
    [ precheck_passed |-> FALSE, precheck_failure_reason |-> "Answer is empty",
      answer_type |-> "empty", llm |-> FALSE, error |-> FALSE ]
  ELSE IF ShortRefusal(a) THEN
    [ precheck_passed |-> TRUE, precheck_failure_reason |-> None,
      answer_type |-> "refusal", llm |-> FALSE, error |-> FALSE ]
  ELSE IF ShortError(a) THEN
    [ precheck_passed |-> FALSE,
      precheck_failure_reason |-> "Answer appears to be an error message",
      answer_type |-> "error", llm |-> FALSE, error |-> FALSE ]
  ELSE IF r.kind = "raise" THEN
    [ precheck_passed |-> TRUE, precheck_failure_reason |-> None,
      answer_type |-> "response", llm |-> TRUE, error |-> TRUE ]
  ELSE IF r.kind = "parse_error" THEN
    [ precheck_passed |-> FALSE, precheck_failure_reason |-> None,
      answer_type |-> "response", llm |-> TRUE, error |-> FALSE ]
  ELSE
    [ precheck_passed |-> r.is_valid /\ r.proceed,
      precheck_failure_reason |->
        IF ~(r.is_valid /\ r.proceed) THEN r.reason ELSE None,
      answer_type |-> "response", llm |-> TRUE, error |-> FALSE ]

\* precheck_node with the error rule ahead of the refusal rule.
PrecheckResultErrorFirst(q, a, r) ==
  IF q.blank THEN
    [ precheck_passed |-> FALSE, precheck_failure_reason |-> "Question is empty",
      answer_type |-> "invalid", llm |-> FALSE, error |-> FALSE ]
  ELSE IF a.blank THEN
    [ precheck_passed |-> FALSE, precheck_failure_reason |-> "Answer is empty",
      answer_type |-> "empty", llm |-> FALSE, error |-> FALSE ]
  ELSE IF ShortError(a) THEN
    [ precheck_passed |-> FALSE,
      precheck_failure_reason |-> "Answer appears to be an error message",
      answer_type |-> "error", llm |-> FALSE, error |-> FALSE ]
  ELSE IF ShortRefusal(a) THEN
    [ precheck_passed |-> TRUE, precheck_failure_reason |-> None,
      answer_type |-> "refusal", llm |-> FALSE, error |-> FALSE ]
  ELSE IF r.kind = "raise" THEN
    [ precheck_passed |-> TRUE, precheck_failure_reason |-> None,
      answer_type |-> "response", llm |-> TRUE, error |-> TRUE ]
  ELSE IF r.kind = "parse_error" THEN
    [ precheck_passed |-> TRUE, precheck_failure_reason |-> None,
      answer_type |-> "response", llm |-> TRUE, error |-> FALSE ]
  ELSE
    [ precheck_passed |-> r.is_valid /\ r.proceed,
      precheck_failure_reason |->
        IF ~(r.is_valid /\ r.proceed) THEN r.reason ELSE None,
      answer_type |-> "response", llm |-> TRUE, error |-> FALSE ]

\* The updates precheck_node returns, for the backend response r.
PrecheckResult(q, a, r) ==
  IF q.blank THEN
    [ precheck_passed |-> FALSE, precheck_failure_reason |-> "Question is empty",
      answer_type |-> "invalid", llm |-> FALSE, error |-> FALSE ]
  ELSE IF a.blank THEN
    [ precheck_passed |-> FALSE, precheck_failure_reason |-> "Answer is empty",
      answer_type |-> "empty", llm |-> FALSE, error |-> FALSE ]
  ELSE IF ShortRefusal(a) THEN
    [ precheck_passed |-> TRUE, precheck_failure_reason |-> None,
      answer_type |-> "refusal", llm |-> FALSE, error |-> FALSE ]
  ELSE IF ShortError(a) THEN
    [ precheck_passed |-> FALSE,
      precheck_failure_reason |-> "Answer appears to be an error message",
      answer_type |-> "error", llm |-> FALSE, error |-> FALSE ]
  ELSE IF r.kind = "raise" THEN
    [ precheck_passed |-> TRUE, precheck_failure_reason |-> None,
      answer_type |-> "response", llm |-> TRUE, error |-> TRUE ]
  ELSE IF r.kind = "parse_error" THEN
    [ precheck_passed |-> TRUE, precheck_failure_reason |-> None,
      answer_type |-> "response", llm |-> TRUE, error |-> FALSE ]
  ELSE
    [ precheck_passed |-> r.is_valid /\ r.proceed,
      precheck_failure_reason |->
        IF ~(r.is_valid /\ r.proceed) THEN r.reason ELSE None,
      answer_type |-> "response", llm |-> TRUE, error |-> FALSE ]

\* A conditional edge that ignores precheck_passed.
AlwaysContinue(passed) == "decomposition"

\* A conditional edge with its two targets exchanged.
ContinueWhenRejected(passed) ==
  IF passed THEN "early_exit" ELSE "decomposition"

\* The conditional edge after precheck.
should_continue_after_precheck(passed) ==
  IF passed THEN "decomposition" ELSE "early_exit"

precheck_node ==
  /\ pc = "precheck"
  /\ \E r \in PrecheckResponses :
       LET res == PrecheckResult(strip(question), strip(answer), r) IN
       \* responses are told apart only where the backend is called
       /\ res.llm \/ (r.kind = "parsed" /\ r.is_valid /\ r.proceed)
       /\ (res.llm /\ PrecheckFault(r)) => faults < MaxFaults
       /\ faults' = IF res.llm /\ PrecheckFault(r) THEN faults + 1 ELSE faults
       /\ precheck_passed' = res.precheck_passed
       /\ precheck_failure_reason' = res.precheck_failure_reason
       /\ answer_type' = res.answer_type
       /\ errors' = IF res.error THEN Append(errors, ErrorEntry("precheck")) ELSE errors
       /\ pc' = should_continue_after_precheck(res.precheck_passed)
       /\ backend' = [ backend EXCEPT !["precheck"] = IF res.llm THEN r ELSE NoCall ]
  /\ trace' = Append(trace, "precheck")
  /\ node_times' = node_times \cup {"precheck"}
  /\ UNCHANGED << client, service, invocations, request, inputVars, decompositionVars, tasks, signals, aggregationVars,
                  riskVars, explanation, recommendations, end_time >>

\* ---------------------------------------------------------------- early exit
early_exit_node ==
  /\ pc = "early_exit"
  /\ failure_detected' = FALSE
  /\ failure_types' = << >>
  /\ detected_failures' = << >>
  /\ risk_score' = 0
  /\ risk_level' = "low"
  /\ explanation' = << "Analysis skipped: ", precheck_failure_reason >>
  /\ recommendations' = << >>
  /\ end_time' = 1
  /\ trace' = Append(trace, "early_exit")
  /\ pc' = "done"
  /\ UNCHANGED << backend, client, service, invocations, request, faults, inputVars, precheckVars, decompositionVars, tasks, signals,
                  failure_signals, domain_multiplier, contributing_factors,
                  errors, node_times >>

\* ------------------------------------------------------------- decomposition
ClaimData(i, type) ==
  [ claim_id |-> i, claim_type |-> type, implicit_assumptions |-> {} ]

RECURSIVE FallbackFrom(_, _)
\* The loop of _fallback_claim_extraction over sentences i, i+1, ...
FallbackFrom(sentences, i) ==
  IF i > Len(sentences) THEN << >>
  ELSE IF sentences[i] > 10
       THEN << ClaimData(i, "factual") >> \o FallbackFrom(sentences, i + 1)
       ELSE FallbackFrom(sentences, i + 1)

\* The sentence split without the limit on the number of claims.
FallbackUnlimited(a) == FallbackFrom(strip(a).sentences, 1)

\* claims[:20]
_fallback_claim_extraction(a) ==
  LET all == FallbackFrom(strip(a).sentences, 1) IN
  IF Len(all) > 20 THEN SubSeq(all, 1, 20) ELSE all

DecompositionFault(r) == r.kind # "parsed" \/ r.reasoning_chain = "scalar"

decomposition_node ==
  /\ pc = "decomposition"
  /\ \E r \in DecompositionResponses :
       /\ DecompositionFault(r) => faults < MaxFaults
       /\ faults' = IF DecompositionFault(r) THEN faults + 1 ELSE faults
       /\ backend' = [ backend EXCEPT !["decomposition"] = r ]
       /\ IF r.kind = "parsed"
          THEN /\ claims' = IF r.nclaims = 0
                            THEN _fallback_claim_extraction(answer)
                            ELSE [ i \in 1..r.nclaims |-> ClaimData(i, "factual") ]
               /\ assumptions' = {"a1"}
               /\ reasoning_steps' = r.reasoning_chain
               /\ errors' = errors
          ELSE /\ claims' = _fallback_claim_extraction(answer)
               /\ assumptions' = {}
               /\ reasoning_steps' = "empty"
               /\ errors' = Append(errors, ErrorEntry("decomposition"))
  /\ trace' = Append(trace, "decomposition")
  /\ node_times' = node_times \cup {"decomposition"}
  /\ pc' = "parallel_detectors"
  /\ UNCHANGED << client, service, invocations, request, inputVars, precheckVars, tasks, signals, aggregationVars,
                  riskVars, explanation, recommendations, end_time >>

\* ----------------------------------------------------------------- detectors
FailureSignal(failure_type, detected, confidence, severity, evidence) ==
  [ failure_type |-> failure_type, detected |-> detected,
    confidence |-> confidence, severity |-> severity, evidence |-> evidence ]

\* A default signal that carries the generic type "unknown".
DefaultSignalUntyped(k) ==
  FailureSignal("unknown", FALSE, 0, "low", "none")

\* _create_default_signal of the detector owning slot k
_create_default_signal(k) ==
  FailureSignal(FailureTypeOf[k], FALSE, 0, "low", "none")

\* Detectors that copy a value of the response into evidence as it is
\* (hallucination: reason, scope_violation: explanation); the others build
\* every evidence entry with an f-string.
CopiesEvidence(k) == k \in {"hallucination_signal", "scope_signal"}

DetectorFault(r) ==
  \/ r.kind # "parsed"
  \/ r.confidence = NotANumber
  \/ r.confidence > 100
  \/ r.evidence = "nonstr"

\* The responses tried on the detector owning slot k.  Ill-typed fields are
\* tried on one detector that copies evidence and on one that does not: the
\* six store confidence and severity with the same statements.
DetectorResponsesOf(k) ==
  IF k \in {"hallucination_signal", "logical_signal"}
  THEN DetectorResponses
  ELSE { r \in DetectorResponses :
           r.kind # "parsed" \/ (r.confidence \in 0..100 /\ r.evidence # "nonstr") }

\* Detectors that all type their parsed signal as the first detector does.
DetectorResultOneType(k, r, state_errors) ==
  IF r.kind = "raise" THEN
    [ status |-> "returned", signal |-> _create_default_signal(k),
      has_errors |-> TRUE,
      errors |-> Append(state_errors, ErrorEntry(DetectorNodeOf[k])) ]
  ELSE IF r.kind = "parse_error" THEN
    [ status |-> "returned", signal |-> _create_default_signal(k),
      has_errors |-> FALSE, errors |-> << >> ]
  ELSE
    [ status |-> "returned",
      signal |-> FailureSignal("hallucination", r.detected, r.confidence, r.severity,
                               IF r.evidence = "nonstr" /\ ~CopiesEvidence(k)
                               THEN "text" ELSE r.evidence),
      has_errors |-> FALSE, errors |-> << >> ]

\* The dict a detector returns for the backend response r.
DetectorResult(k, r, state_errors) ==
  IF r.kind = "raise" THEN
    [ status |-> "returned", signal |-> _create_default_signal(k),
      has_errors |-> TRUE,
      errors |-> Append(state_errors, ErrorEntry(DetectorNodeOf[k])) ]
  ELSE IF r.kind = "parse_error" THEN
    [ status |-> "returned", signal |-> _create_default_signal(k),
      has_errors |-> FALSE, errors |-> << >> ]
  ELSE
    [ status |-> "returned",
      signal |-> FailureSignal(FailureTypeOf[k], r.detected, r.confidence, r.severity,
                               IF r.evidence = "nonstr" /\ ~CopiesEvidence(k)
                               THEN "text" ELSE r.evidence),
      has_errors |-> FALSE, errors |-> << >> ]

RaisedTask ==
  [ status |-> "raised", signal |-> NoSignal, has_errors |-> FALSE, errors |-> << >> ]

\* logical_inconsistency_detector enumerates reasoning_steps before its try.
RaisesBeforeTry(k) == k = "logical_signal" /\ reasoning_steps = "scalar"

\* asyncio.gather creates the six tasks.
fan_out ==
  /\ pc = "parallel_detectors"
  /\ \A k \in SignalKeySet : tasks[k].status = "idle"
  /\ tasks' = [ k \in SignalKeySet |-> [ IdleTask EXCEPT !.status = "pending" ] ]
  /\ trace' = Append(trace, "parallel_detectors")
  /\ UNCHANGED << backend, client, service, invocations, request, pc, faults, inputVars, precheckVars, decompositionVars, signals,
                  aggregationVars, riskVars, explanation, recommendations,
                  errors, node_times, end_time >>

\* One detector coroutine runs to its end.
detector(k) ==
  /\ pc = "parallel_detectors"
  /\ tasks[k].status = "pending"
  /\ IF RaisesBeforeTry(k)
     THEN /\ tasks' = [ tasks EXCEPT ![k] = RaisedTask ]
          /\ faults' = faults
          /\ backend' = backend
     ELSE \E r \in DetectorResponsesOf(k) :
            /\ DetectorFault(r) => faults < MaxFaults
            /\ faults' = IF DetectorFault(r) THEN faults + 1 ELSE faults
            /\ tasks' = [ tasks EXCEPT ![k] = DetectorResult(k, r, errors) ]
            /\ backend' = [ backend EXCEPT ![DetectorNodeOf[k]] = r ]
  /\ UNCHANGED << client, service, invocations, request, pc, trace, inputVars, precheckVars, decompositionVars, signals,
                  aggregationVars, riskVars, explanation, recommendations,
                  errors, node_times, end_time >>

Terminal == {"returned", "raised"}

\* A gather that resumes its caller at the first finished task.
GatherDoneFirst(ts) == \E k \in SignalKeySet : ts[k].status \in Terminal

\* asyncio.gather(..., return_exceptions=True) resumes its caller.
GatherDone(ts) == \A k \in SignalKeySet : ts[k].status \in Terminal

RECURSIVE GatherErrors(_, _, _)
\* errors.append(...) for every result that is an exception, in gather order
GatherErrors(ts, i, errs) ==
  IF i > Len(signal_keys) THEN errs
  ELSE GatherErrors(ts, i + 1,
         IF ts[signal_keys[i]].status = "raised"
         THEN Append(errs, ErrorEntry("parallel_detectors")) ELSE errs)

\* A merge that collects the exceptions in a new list.
MergedErrorsFromEmpty(ts, state_errors) == GatherErrors(ts, 1, << >>)

\* merged["errors"] = errors: the list read from the state before the loop
\* replaces whatever merged.update(result) stored under "errors".
MergedErrors(ts, state_errors) == GatherErrors(ts, 1, state_errors)

\* A merge in which the node_times of the last returned dict replace the
\* ones merged before.
MergedNodeTimesLastWins(ts, state_times) ==
  LET returned == { i \in 1..Len(signal_keys) : ts[signal_keys[i]].status = "returned" } IN
  (IF returned = {} THEN {}
   ELSE state_times
          \cup { DetectorNodeOf[signal_keys[CHOOSE i \in returned : \A j \in returned : j <= i]] })
    \cup {"parallel_detectors_total"}

\* Every returned dict carries {**state node_times, own key}.
MergedNodeTimes(ts, state_times) ==
  LET returned == { k \in SignalKeySet : ts[k].status = "returned" } IN
  (IF returned = {} THEN {} ELSE state_times \cup { DetectorNodeOf[k] : k \in returned })
    \cup {"parallel_detectors_total"}

\* A merge that also hands back an emptied claims list.
fan_in_clearing_claims ==
  /\ pc = "parallel_detectors"
  /\ GatherDone(tasks)
  /\ signals' = [ k \in SignalKeySet |->
                    IF tasks[k].status = "returned" THEN tasks[k].signal ELSE signals[k] ]
  /\ errors' = MergedErrors(tasks, errors)
  /\ node_times' = MergedNodeTimes(tasks, node_times)
  /\ claims' = << >>
  /\ pc' = "aggregation"
  /\ UNCHANGED << backend, client, service, invocations, request, trace, faults, inputVars,
                  precheckVars, assumptions, reasoning_steps, tasks,
                  aggregationVars, riskVars, explanation, recommendations, end_time >>

\* The merge loop of parallel_detectors_node and its return.
fan_in ==
  /\ pc = "parallel_detectors"
  /\ GatherDone(tasks)
  /\ signals' = [ k \in SignalKeySet |->
                    IF tasks[k].status = "returned" THEN tasks[k].signal ELSE signals[k] ]
  /\ errors' = MergedErrors(tasks, errors)
  /\ node_times' = MergedNodeTimes(tasks, node_times)
  /\ pc' = "aggregation"
  /\ UNCHANGED << backend, client, service, invocations, request, trace, faults, inputVars, precheckVars, decompositionVars, tasks,
                  aggregationVars, riskVars, explanation, recommendations, end_time >>

\* --------------------------------------------------------------- aggregation
SeqFilter(seq, Keep(_)) ==
  LET F[i \in 0..Len(seq)] ==
        IF i = 0 THEN << >>
        ELSE IF Keep(seq[i]) THEN Append(F[i - 1], seq[i]) ELSE F[i - 1]
  IN F[Len(seq)]

\* A collection that starts from the state's failure_signals, not from [].
CollectSignalsAppending(slots) ==
  failure_signals \o
    SeqFilter([ i \in 1..Len(signal_keys) |-> slots[signal_keys[i]] ],
              LAMBDA sig : sig # NoSignal)

\* The slots read in signal_keys order; "if signal:" skips a slot holding None.
CollectSignals(slots) ==
  SeqFilter([ i \in 1..Len(signal_keys) |-> slots[signal_keys[i]] ],
            LAMBDA sig : sig # NoSignal)

\* The threshold test with > for >=.
RetainAbove(sig) == sig.detected /\ sig.confidence > failure_confidence_threshold

\* signal.get("detected") and confidence >= threshold
Retain(sig) == sig.detected /\ sig.confidence >= failure_confidence_threshold

\* confidence >= threshold raises TypeError when confidence is not a number.
ComparisonRaises(sig) == sig.detected /\ sig.confidence = NotANumber

\* Position of x in a list sorted descending by confidence that keeps x
\* behind the entries of equal confidence (list.sort is stable).
RECURSIVE InsertByConfidence(_, _)
InsertByConfidence(sorted, x) ==
  IF sorted = << >> THEN << x >>
  ELSE IF Head(sorted).confidence >= x.confidence
       THEN << Head(sorted) >> \o InsertByConfidence(Tail(sorted), x)
       ELSE << x >> \o sorted

\* An ascending stable sort read backwards: ties come out in reverse.
SortThenReverse(seq) ==
  LET Up[i \in 0..Len(seq)] ==
        IF i = 0 THEN << >>
        ELSE LET n == Cardinality({ j \in 1..Len(Up[i - 1]) :
                                     Up[i - 1][j].confidence <= seq[i].confidence })
             IN SubSeq(Up[i - 1], 1, n) \o << seq[i] >>
                  \o SubSeq(Up[i - 1], n + 1, Len(Up[i - 1]))
      up == Up[Len(seq)]
  IN [ i \in 1..Len(up) |-> up[Len(up) + 1 - i] ]

\* detected_failures.sort(key=confidence, reverse=True)
SortByConfidence(seq) ==
  LET S[i \in 0..Len(seq)] ==
        IF i = 0 THEN << >> ELSE InsertByConfidence(S[i - 1], seq[i])
  IN S[Len(seq)]

\* Types recorded only for a confidence of at most 1.0.
TypesOfInRange(seq) ==
  LET T[i \in 0..Len(seq)] ==
        IF i = 0 THEN << >>
        ELSE IF seq[i].confidence > 100
                \/ \E j \in 1..Len(T[i - 1]) : T[i - 1][j] = seq[i].failure_type
             THEN T[i - 1]
             ELSE Append(T[i - 1], seq[i].failure_type)
  IN T[Len(seq)]

\* failure_types, appended while filtering: first occurrence of each type
TypesOf(seq) ==
  LET T[i \in 0..Len(seq)] ==
        IF i = 0 THEN << >>
        ELSE IF \E j \in 1..Len(T[i - 1]) : T[i - 1][j] = seq[i].failure_type
             THEN T[i - 1]
             ELSE Append(T[i - 1], seq[i].failure_type)
  IN T[Len(seq)]

aggregation_node ==
  /\ pc = "aggregation"
  /\ trace' = Append(trace, "aggregation")
  /\ LET collected == CollectSignals(signals)
         retained == SeqFilter(collected, Retain)
     IN IF \E i \in 1..Len(collected) : ComparisonRaises(collected[i])
        THEN /\ pc' = "raised"
             /\ UNCHANGED << aggregationVars, node_times >>
        ELSE /\ failure_signals' = collected
             /\ detected_failures' = SortByConfidence(retained)
             /\ failure_detected' = (Len(retained) > 0)
             /\ failure_types' = TypesOf(retained)
             /\ node_times' = node_times \cup {"aggregation"}
             /\ pc' = "risk_scoring"
  /\ UNCHANGED << backend, client, service, invocations, request, faults, inputVars, precheckVars, decompositionVars, tasks, signals,
                  riskVars, explanation, recommendations, errors, end_time >>

\* -------------------------------------------------------------- risk scoring
\* failure_weights.get(failure_type, 0.1)
TypeWeight(failure_type) ==
  IF failure_type \in DOMAIN failure_weights THEN failure_weights[failure_type] ELSE 10

\* severity_multipliers.get(severity, 0.5)
SeverityMultiplier(severity) ==
  IF severity \in DOMAIN severity_multipliers THEN severity_multipliers[severity] ELSE 50

\* A table whose entry for code (0.5) is below the one for general.
DomainMultiplierCodeBelowGeneral(d) ==
  IF d = "code" THEN 5
  ELSE IF d \in DOMAIN domain_multipliers THEN domain_multipliers[d] ELSE 10

\* domain_multipliers.get(domain, 1.0)
DomainMultiplier(d) ==
  IF d \in DOMAIN domain_multipliers THEN domain_multipliers[d] ELSE 10

\* A contribution that leaves the domain multiplier out.
ContributionNoDomain(f, d) ==
  f.confidence * TypeWeight(f.failure_type) * SeverityMultiplier(f.severity) * 10

\* confidence * type_weight * severity_mult * domain_multiplier, units of 10^-7
Contribution(f, d) ==
  f.confidence * TypeWeight(f.failure_type) * SeverityMultiplier(f.severity)
    * DomainMultiplier(d)

\* total_risk after the loop over detected_failures
TotalRisk(failures, d) ==
  LET R[i \in 0..Len(failures)] ==
        IF i = 0 THEN 0 ELSE R[i - 1] + Contribution(failures[i], d)
  IN R[Len(failures)]

\* round(): x in units of 10^-7 to the nearest multiple of unit, a tie to the
\* even one.  The decimal value is rounded; binary floating-point error is
\* not modelled.
RoundTo(x, unit) ==
  LET q == x \div unit
      r == x % unit
  IN IF 2 * r > unit \/ (2 * r = unit /\ q % 2 = 1) THEN q + 1 ELSE q

\* A score that is not capped.
NoCap(total) == total

\* min(total_risk, 1.0)
CapRisk(total) == IF total < RiskUnit THEN total ELSE RiskUnit

\* The if/elif chain on the capped score, units of 10^-7
RiskLevel(score) ==
  IF score < 2500000 THEN "low"
  ELSE IF score < 5000000 THEN "medium"
  ELSE IF score < 7500000 THEN "high"
  ELSE "critical"

ContributingFactor(f, d) ==
  [ failure_type |-> f.failure_type, confidence |-> f.confidence,
    severity |-> f.severity, type_weight |-> TypeWeight(f.failure_type),
    severity_multiplier |-> SeverityMultiplier(f.severity),
    domain_multiplier |-> DomainMultiplier(d),
    contribution |-> RoundTo(Contribution(f, d), 1000) ]

risk_scoring_node ==
  /\ pc = "risk_scoring"
  /\ trace' = Append(trace, "risk_scoring")
  /\ LET capped == CapRisk(TotalRisk(detected_failures, domain)) IN
       /\ risk_score' = RoundTo(capped, 10000)
       /\ risk_level' = RiskLevel(capped)
  /\ domain_multiplier' = DomainMultiplier(domain)
  /\ contributing_factors' =
       [ i \in 1..Len(detected_failures) |-> ContributingFactor(detected_failures[i], domain) ]
  /\ node_times' = node_times \cup {"risk_scoring"}
  /\ pc' = "explanation"
  /\ UNCHANGED << backend, client, service, invocations, request, faults, inputVars, precheckVars, decompositionVars, tasks, signals,
                  aggregationVars, explanation, recommendations, errors, end_time >>

\* --------------------------------------------------------------- explanation
\* "parsed_empty" is a parsed object whose summary and detailed_explanation
\* are empty strings.
ExplanationResponses == {"raise", "parse_error", "parsed", "parsed_empty"}

\* '; '.join(f.get('evidence', [])[:3]) raises TypeError on a non-string
\* entry; it is evaluated before the try block.
FormatRaises(failures) ==
  \E i \in 1..Len(failures) : failures[i].evidence = "nonstr"

_generate_no_failure_explanation ==
  << "The analysis found no significant reliability issues with this LLM output." >>

\* A fallback that has no text.
EmptyFallback(failures) == << >>

\* The text is kept as its non-empty pieces, in order.
_generate_fallback_explanation(failures) ==
  << "Analysis detected ", Len(failures), " potential issue(s): ",
     [ i \in 1..Len(failures) |-> failures[i].failure_type ],
     ". Overall risk score: ", risk_score, risk_level >>

\* f"{summary}\n\n{detailed}" of a parsed object
ParsedExplanation(r) ==
  IF r = "parsed_empty" THEN << "\n\n" >>
  ELSE << "summary", "\n\n", "detailed_explanation" >>

explanation_node ==
  /\ pc = "explanation"
  /\ trace' = Append(trace, "explanation")
  /\ IF detected_failures = << >>
     THEN /\ explanation' = _generate_no_failure_explanation
          /\ node_times' = node_times \cup {"explanation"}
          /\ pc' = "recommendation"
          /\ UNCHANGED << errors, faults, backend >>
     ELSE IF FormatRaises(detected_failures)
     THEN /\ pc' = "raised"
          /\ UNCHANGED << explanation, node_times, errors, faults, backend >>
     ELSE \E r \in ExplanationResponses :
            /\ r # "parsed" => faults < MaxFaults
            /\ faults' = IF r # "parsed" THEN faults + 1 ELSE faults
            /\ backend' = [ backend EXCEPT !["explanation"] = [ kind |-> r ] ]
            /\ explanation' =
                 IF r \in {"parsed", "parsed_empty"} THEN ParsedExplanation(r)
                 ELSE _generate_fallback_explanation(detected_failures)
            /\ errors' = IF r = "raise"
                         THEN Append(errors, ErrorEntry("explanation")) ELSE errors
            /\ node_times' = node_times \cup {"explanation"}
            /\ pc' = "recommendation"
  /\ UNCHANGED << client, service, invocations, request, inputVars, precheckVars, decompositionVars, tasks, signals,
                  aggregationVars, riskVars, recommendations, end_time >>

\* ------------------------------------------------------------ recommendation
\* priority of each entry of RECOMMENDATIONS_DB, per failure type
RECOMMENDATIONS_DB ==
  [ hallucination         |-> << 1, 2, 2 >>,
    logical_inconsistency |-> << 1, 2, 3 >>,
    missing_assumptions   |-> << 1, 2, 2 >>,
    overconfidence        |-> << 1, 2, 3 >>,
    scope_violation       |-> << 1, 2 >>,
    underspecification    |-> << 1, 2, 3 >> ]

severity_order == [ critical |-> 0, high |-> 1, medium |-> 2, low |-> 3 ]

\* severity_order.get(x.get("severity", "medium"), 2)
SeverityRank(f) ==
  IF f.severity \in DOMAIN severity_order THEN severity_order[f.severity] ELSE 2

\* Stable ascending insertion: x goes behind the entries whose key is <= its own.
InsertAscending(sorted, x, Key(_)) ==
  LET n == Cardinality({ j \in 1..Len(sorted) : Key(sorted[j]) <= Key(x) }) IN
  SubSeq(sorted, 1, n) \o << x >> \o SubSeq(sorted, n + 1, Len(sorted))

\* sorted(seq, key=Key) and list.sort(key=Key)
SortAscending(seq, Key(_)) ==
  LET S[i \in 0..Len(seq)] ==
        IF i = 0 THEN << >> ELSE InsertAscending(S[i - 1], seq[i], Key)
  IN S[Len(seq)]

RecommendationData(id, priority, failure_type) ==
  [ recommendation_id |-> id, priority |-> priority, failure_type |-> failure_type ]

\* type_recs[:2] of one failure type, with ids counting on from n
TypeRecommendations(failure_type, n) ==
  LET recs == IF failure_type \in DOMAIN RECOMMENDATIONS_DB
              THEN RECOMMENDATIONS_DB[failure_type] ELSE << >>
      top == IF Len(recs) > 2 THEN 2 ELSE Len(recs)
  IN [ j \in 1..top |-> RecommendationData(n + j, recs[j], failure_type) ]

\* The loop run over detected_failures as they stand, without sorted(...).
StaticInGivenOrder(failures) ==
  LET R[i \in 0..Len(failures)] ==
        IF i = 0 THEN << >>
        ELSE IF \E j \in 1..(i - 1) : failures[j].failure_type = failures[i].failure_type
             THEN R[i - 1]
             ELSE R[i - 1] \o TypeRecommendations(failures[i].failure_type, Len(R[i - 1]))
  IN R[Len(failures)]

\* The loop over sorted_failures with seen_types and rec_id_counter.
StaticRecommendations(failures) ==
  LET sorted == SortAscending(failures, SeverityRank)
      R[i \in 0..Len(sorted)] ==
        IF i = 0 THEN << >>
        ELSE IF \E j \in 1..(i - 1) : sorted[j].failure_type = sorted[i].failure_type
             THEN R[i - 1]
             ELSE R[i - 1] \o TypeRecommendations(sorted[i].failure_type, Len(R[i - 1]))
  IN R[Len(sorted)]

RecPriority(rec) == rec.priority

\* What _generate_domain_recommendations gets from the backend; a parsed
\* entry without recommendation_id is given the id "rd1", modelled as 0, and
\* the id "r<n>" is modelled as n.  The non-empty parsed response has four
\* entries: the first carries the id "r1" of the example entry in the prompt
\* GENERATE_RECOMMENDATIONS, the next two carry no id.
\* "ill_typed" is parsed JSON whose "recommendations" is not a list of
\* objects: raw_recs[:3] or rec.get raises inside the try of the caller.
RecommendationResponses ==
  { [kind |-> "raise", recs |-> << >>],
    [kind |-> "parse_error", recs |-> << >>],
    [kind |-> "ill_typed", recs |-> << >>],
    [kind |-> "parsed", recs |-> << >>],
    [kind |-> "parsed",
     recs |-> << RecommendationData(1, 1, "hallucination"),
                 RecommendationData(0, 1, "general"),
                 RecommendationData(0, 3, "general"),
                 RecommendationData(4, 5, "general") >>] }

\* Every entry of raw_recs is taken.
DomainRecommendationsUnlimited(r) ==
  IF r.kind # "parsed" THEN << >> ELSE r.recs

\* raw_recs[:3]
_generate_domain_recommendations(r) ==
  IF r.kind # "parsed" THEN << >>
  ELSE IF Len(r.recs) > 3 THEN SubSeq(r.recs, 1, 3) ELSE r.recs

\* recommendations[:10]
LimitRecommendations(recs) == IF Len(recs) > 10 THEN SubSeq(recs, 1, 10) ELSE recs

recommendation_node ==
  /\ pc = "recommendation"
  /\ trace' = Append(trace, "recommendation")
  /\ IF detected_failures = << >>
     THEN /\ recommendations' = << >>
          /\ UNCHANGED << faults, backend >>
     ELSE LET static == SortAscending(StaticRecommendations(detected_failures), RecPriority) IN
          IF domain # "general"
          THEN \E r \in RecommendationResponses :
                 /\ r.kind # "parsed" => faults < MaxFaults
                 /\ faults' = IF r.kind # "parsed" THEN faults + 1 ELSE faults
                 /\ backend' = [ backend EXCEPT !["recommendation"] = r ]
                 /\ recommendations' =
                      LimitRecommendations(static \o _generate_domain_recommendations(r))
          ELSE /\ recommendations' = LimitRecommendations(static)
               /\ UNCHANGED << faults, backend >>
  /\ node_times' = node_times \cup {"recommendation"}
  /\ pc' = "finalize"
  /\ UNCHANGED << client, service, invocations, request, inputVars, precheckVars, decompositionVars, tasks, signals,
                  aggregationVars, riskVars, explanation, errors, end_time >>

\* ------------------------------------------------------------------ finalize
finalize_node ==
  /\ pc = "finalize"
  /\ trace' = Append(trace, "finalize")
  /\ end_time' = 1
  /\ pc' = "done"
  /\ UNCHANGED << backend, client, service, invocations, request, faults, inputVars, precheckVars, decompositionVars, tasks, signals,
                  aggregationVars, riskVars, explanation, recommendations,
                  errors, node_times >>

parallel_detectors_node ==
  \/ fan_out
  \/ \E k \in SignalKeySet : detector(k)
  \/ fan_in

\* graph.ainvoke: the node pc names runs; "done" and "raised" have no successor.
Next ==
  \/ precheck_node
  \/ early_exit_node
  \/ decomposition_node
  \/ parallel_detectors_node
  \/ aggregation_node
  \/ risk_scoring_node
  \/ explanation_node
  \/ recommendation_node
  \/ finalize_node

Spec == Init /\ [][Next]_vars

\* ------------------------------------------ aggregation and scoring in depth
\* ScoreSpec starts a run where parallel_detectors_node hands over to
\* aggregation_node, for six detectors that each got one of these parsed
\* responses, and lets it run to its end with a backend that keeps answering
\* as asked (the fault budget is spent).  Runs in which MaxReporting detectors
\* report are given the first domain only; runs with fewer, every domain.
ScoreShapes ==
  << DetectorResponse("parsed", FALSE, 0, "low", "none"),
     DetectorResponse("parsed", TRUE, 85, "high", "text"),
     DetectorResponse("parsed", TRUE, 100, "critical", "text"),
     DetectorResponse("parsed", TRUE, 96, "critical", "text"),
     DetectorResponse("parsed", TRUE, 50, "low", "text"),
     DetectorResponse("parsed", TRUE, 49, "medium", "text"),
     DetectorResponse("parsed", FALSE, 90, "high", "text"),
     DetectorResponse("parsed", TRUE, 85, "medium", "text") >>

ScoreResponses ==
  { ScoreShapes[i] : i \in 1..(IF MaxShapes < Len(ScoreShapes) THEN MaxShapes ELSE Len(ScoreShapes)) }

ScoreInit ==
  /\ pc = "aggregation"
  /\ trace = << "precheck", "decomposition", "parallel_detectors" >>
  /\ faults = MaxFaults
  /\ question = Text(12, FALSE, FALSE, FALSE, << 12 >>)
  /\ answer = Text(19, FALSE, FALSE, FALSE, << 5, 13 >>)
  /\ domain \in Domains
  /\ precheck_passed = TRUE
  /\ precheck_failure_reason = None
  /\ answer_type = "response"
  /\ claims = << ClaimData(1, "factual"), ClaimData(2, "factual") >>
  /\ assumptions = {"a1"}
  /\ reasoning_steps = "list"
  /\ \E resp \in [ SignalKeySet -> ScoreResponses ] :
       /\ Cardinality({ k \in SignalKeySet : resp[k] # ScoreShapes[1] }) <= MaxReporting
       /\ Cardinality({ k \in SignalKeySet : resp[k] # ScoreShapes[1] }) = MaxReporting
            => domain = DomainOrder[1]
       /\ tasks = [ k \in SignalKeySet |-> DetectorResult(k, resp[k], << >>) ]
       /\ backend =
            [ s \in Stages |->
                IF \E k \in SignalKeySet : DetectorNodeOf[k] = s
                THEN resp[CHOOSE k \in SignalKeySet : DetectorNodeOf[k] = s]
                ELSE IF s = "precheck"
                THEN [kind |-> "parsed", is_valid |-> TRUE, proceed |-> TRUE, reason |-> None]
                ELSE IF s = "decomposition"
                THEN [kind |-> "parsed", nclaims |-> 2, reasoning_chain |-> "list"]
                ELSE NoCall ]
  /\ signals = [ k \in SignalKeySet |-> tasks[k].signal ]
  /\ failure_signals = << >>
  /\ detected_failures = << >>
  /\ failure_detected = FALSE
  /\ failure_types = << >>
  /\ risk_score = 0
  /\ risk_level = "low"
  /\ domain_multiplier = 10
  /\ contributing_factors = << >>
  /\ explanation = << >>
  /\ recommendations = << >>
  /\ errors = << >>
  /\ node_times = MergedNodeTimes(tasks, {"precheck", "decomposition"})
  /\ end_time = 0
  /\ client = IdleClient
  /\ service = IdleService
  /\ invocations = NoInvocations
  /\ request = NoRequest

ScoreNext ==
  \/ aggregation_node
  \/ risk_scoring_node
  \/ explanation_node
  \/ recommendation_node
  \/ finalize_node

ScoreSpec == ScoreInit /\ [][ScoreNext]_vars

\* ------------------------------------------- aggregation and scoring, again
\* aggregation_node and risk_scoring_node are functions of a state: RerunSpec
\* hands the state risk_scoring_node returned (merged into the state, as the
\* graph does) to aggregation_node again, signals and domain untouched.
Runs == Cardinality({ i \in 1..Len(trace) : trace[i] = "aggregation" })

rerun ==
  /\ pc = "explanation"
  /\ Runs < MaxRuns
  /\ pc' = "aggregation"
  /\ UNCHANGED << trace, faults, inputVars, precheckVars, decompositionVars, tasks,
                  signals, aggregationVars, riskVars, explanation, recommendations,
                  errors, node_times, end_time, backend, client, service, invocations, request >>

RerunNext ==
  \/ aggregation_node
  \/ risk_scoring_node
  \/ rerun

\* The runs repeated are those of the first two domains.
RerunInit == ScoreInit /\ domain \in {DomainOrder[1], DomainOrder[2]}

RerunSpec == RerunInit /\ [][RerunNext]_vars

\* ----------------------------------------------------------- the model client
\* ClientSpec follows one llm.generate_structured call through OllamaClient.
\* A response text is a sequence of tokens: "{" and "}", "kv" for a member
\* list such as "a": 1, "w" for any other text, "fence" for a code fence (three
\* backquotes) with its optional json tag.
Tokens == {"{", "}", "kv", "w", "fence"}

Texts == UNION { [ 1..n -> Tokens ] : n \in 0..MaxTokens }

\* What one POST /api/generate does: it answers with a text, times out, fails
\* to connect, or answers with an HTTP error status.
BackendOutcomes ==
  { [ kind |-> "ok", text |-> t ] : t \in Texts }
    \cup { [ kind |-> k, text |-> << >> ] : k \in {"timeout", "connect", "status"} }

\* stop_after_attempt(3)
stop_after_attempt == 3

\* The except clauses of generate: what it raises for a failed POST.
GenerateRaises(kind) ==
  IF kind = "timeout" THEN "OllamaTimeoutError"
  ELSE IF kind = "connect" THEN "OllamaConnectionError"
  ELSE "OllamaError"

\* retry_if_exception_type((httpx.TimeoutException, httpx.ConnectError)),
\* applied to the exception that leaves the body of generate.
retry_if_exception_type(exception) ==
  exception \in {"httpx.TimeoutException", "httpx.ConnectError"}

\* One attempt of generate under the @retry decorator.
generate ==
  /\ client.pc = "generate"
  /\ \E o \in BackendOutcomes :
       LET n == client.attempts + 1
           exception == GenerateRaises(o.kind)
       IN client' =
            IF o.kind = "ok"
            THEN [ client EXCEPT !.attempts = n, !.response = o.text, !.pc = "parse" ]
            ELSE IF retry_if_exception_type(exception) /\ n < stop_after_attempt
            THEN [ client EXCEPT !.attempts = n, !.failure = o.kind ]
            ELSE [ client EXCEPT !.attempts = n, !.failure = o.kind, !.pc = "raised",
                                 !.exception =
                                   IF retry_if_exception_type(exception)
                                   THEN "RetryError" ELSE exception ]
  /\ UNCHANGED << pc, trace, faults, inputVars, precheckVars, decompositionVars, tasks,
                  signals, aggregationVars, riskVars, explanation, recommendations,
                  errors, node_times, end_time, backend, service, invocations, request >>

\* json.loads on a token text: an object that is empty or holds one member list
json_loads(t) == t = << "{", "}" >> \/ t = << "{", "kv", "}" >>

Positions(t, token) == { i \in 1..Len(t) : t[i] = token }

Least(S) == CHOOSE x \in S : \A y \in S : x <= y

Greatest(S) == CHOOSE x \in S : \A y \in S : x >= y

NoMatch == [ found |-> FALSE, text |-> << >> ]

\* re.search on the fence pattern with a lazy group, re.DOTALL: group 1 lies
\* between the first fence and the one that follows it.
FencedBlock(t) ==
  LET fences == Positions(t, "fence") IN
  IF Cardinality(fences) < 2 THEN NoMatch
  ELSE LET first == Least(fences)
           second == Least(fences \ {first})
       IN [ found |-> TRUE, text |-> SubSeq(t, first + 1, second - 1) ]

\* re.search(r"\{.*\}", response, re.DOTALL): from the first opening brace to
\* the last closing brace of the text.
BraceSpan(t) ==
  LET opens == Positions(t, "{")
      closes == Positions(t, "}")
  IN IF opens = {} \/ closes = {} \/ Greatest(closes) < Least(opens) THEN NoMatch
     ELSE [ found |-> TRUE, text |-> SubSeq(t, Least(opens), Greatest(closes)) ]

\* The try/except cascade of generate_structured on the text generate returned.
ParseResponse(t) ==
  IF json_loads(t) THEN [ kind |-> "parsed", text |-> t ]
  ELSE IF FencedBlock(t).found /\ json_loads(FencedBlock(t).text)
  THEN [ kind |-> "parsed", text |-> FencedBlock(t).text ]
  ELSE IF BraceSpan(t).found /\ json_loads(BraceSpan(t).text)
  THEN [ kind |-> "parsed", text |-> BraceSpan(t).text ]
  ELSE [ kind |-> "parse_error", text |-> t ]

generate_structured ==
  /\ client.pc = "parse"
  /\ client' = [ client EXCEPT !.result = ParseResponse(client.response),
                               !.pc = "returned" ]
  /\ UNCHANGED << pc, trace, faults, inputVars, precheckVars, decompositionVars, tasks,
                  signals, aggregationVars, riskVars, explanation, recommendations,
                  errors, node_times, end_time, backend, service, invocations, request >>

\* A stage has called llm.generate_structured; the pipeline waits for it.
ClientInit ==
  /\ client = [ IdleClient EXCEPT !.pc = "generate" ]
  /\ pc = "precheck"
  /\ trace = << >>
  /\ faults = 0
  /\ question = Text(12, FALSE, FALSE, FALSE, << 12 >>)
  /\ answer = PlainAnswer
  /\ domain = DomainOrder[1]
  /\ precheck_passed = FALSE
  /\ precheck_failure_reason = None
  /\ answer_type = "unknown"
  /\ claims = << >>
  /\ assumptions = {}
  /\ reasoning_steps = "empty"
  /\ tasks = [ k \in SignalKeySet |-> IdleTask ]
  /\ signals = [ k \in SignalKeySet |-> NoSignal ]
  /\ failure_signals = << >>
  /\ detected_failures = << >>
  /\ failure_detected = FALSE
  /\ failure_types = << >>
  /\ risk_score = 0
  /\ risk_level = "low"
  /\ domain_multiplier = 10
  /\ contributing_factors = << >>
  /\ explanation = << >>
  /\ recommendations = << >>
  /\ errors = << >>
  /\ node_times = {}
  /\ end_time = 0
  /\ backend = [ s \in Stages |-> NoCall ]
  /\ service = IdleService
  /\ invocations = NoInvocations
  /\ request = NoRequest

ClientNext ==
  \/ generate
  \/ generate_structured

ClientSpec == ClientInit /\ [][ClientNext]_vars

\* ------------------------------------------------------- the analysis service
\* ServiceSpec follows AnalysisService.analyze from the return of
\* run_analysis: the state variables hold the final state of a run that went
\* through finalize, for a backend that answered every call as asked.
MaxRows == 2

\* Signals a run can retain, as its detectors stored them; the last one has
\* the confidence 1.5 the hallucination detector stores unclamped.
ServiceSignals ==
  << FailureSignal("hallucination", TRUE, 85, "high", "text"),
     FailureSignal("overconfidence", TRUE, 70, "medium", "text"),
     FailureSignal("scope_violation", TRUE, 60, "low", "text"),
     FailureSignal("underspecification", TRUE, 55, "low", "text") >>

OutOfRangeSignal == FailureSignal("hallucination", TRUE, 150, "high", "text")

ServiceInit ==
  /\ pc = "done"
  /\ trace = << "precheck", "decomposition", "parallel_detectors", "aggregation",
               "risk_scoring", "explanation", "recommendation", "finalize" >>
  /\ faults = MaxFaults
  /\ question = Text(12, FALSE, FALSE, FALSE, << 12 >>)
  /\ answer = PlainAnswer
  /\ domain = DomainOrder[1]
  /\ precheck_passed = TRUE
  /\ precheck_failure_reason = None
  /\ answer_type = "response"
  /\ \E n \in 0..(IF MaxRows < 4 THEN MaxRows ELSE 4) :
       claims = [ i \in 1..n |-> ClaimData(i, "factual") ]
  /\ assumptions = {"a1"}
  /\ reasoning_steps = "list"
  /\ \E n \in 0..(IF MaxRows < Len(ServiceSignals) THEN MaxRows ELSE Len(ServiceSignals)) :
     \E first \in {ServiceSignals[1], OutOfRangeSignal} :
       LET reported == [ i \in 1..n |-> IF i = 1 THEN first ELSE ServiceSignals[i] ] IN
       signals = [ k \in SignalKeySet |->
                     IF \E i \in 1..n : reported[i].failure_type = FailureTypeOf[k]
                     THEN reported[CHOOSE i \in 1..n : reported[i].failure_type = FailureTypeOf[k]]
                     ELSE _create_default_signal(k) ]
  /\ tasks = [ k \in SignalKeySet |->
                [ status |-> "returned", signal |-> signals[k], errors |-> << >>,
                  has_errors |-> FALSE ] ]
  /\ failure_signals = CollectSignals(signals)
  /\ detected_failures = SortByConfidence(SeqFilter(failure_signals, Retain))
  /\ failure_detected = (Len(detected_failures) > 0)
  /\ failure_types = TypesOf(SeqFilter(failure_signals, Retain))
  /\ risk_score = RoundTo(CapRisk(TotalRisk(detected_failures, domain)), 10000)
  /\ risk_level = RiskLevel(CapRisk(TotalRisk(detected_failures, domain)))
  /\ domain_multiplier = DomainMultiplier(domain)
  /\ contributing_factors =
       [ i \in 1..Len(detected_failures) |-> ContributingFactor(detected_failures[i], domain) ]
  /\ explanation = IF detected_failures = << >> THEN _generate_no_failure_explanation
                   ELSE << "summary", "\n\n", "detailed_explanation" >>
  /\ recommendations =
       LimitRecommendations(
         SortAscending(StaticRecommendations(detected_failures), RecPriority))
  /\ errors = << >>
  /\ node_times = ({ trace[i] : i \in 1..Len(trace) } \ {"finalize"})
                    \cup { DetectorNodeOf[k] : k \in SignalKeySet }
  /\ end_time = 1
  /\ backend =
       [ s \in Stages |->
           IF \E k \in SignalKeySet : DetectorNodeOf[k] = s
           THEN LET sig == signals[CHOOSE k \in SignalKeySet : DetectorNodeOf[k] = s] IN
                DetectorResponse("parsed", sig.detected, sig.confidence, sig.severity,
                                 sig.evidence)
           ELSE IF s = "precheck"
           THEN [kind |-> "parsed", is_valid |-> TRUE, proceed |-> TRUE, reason |-> None]
           ELSE IF s = "decomposition"
           THEN [kind |-> "parsed", nclaims |-> Len(claims), reasoning_chain |-> "list"]
           ELSE IF s = "explanation" /\ detected_failures # << >>
           THEN [kind |-> "parsed"]
           ELSE NoCall ]
  /\ client = IdleClient
  /\ invocations = NoInvocations
  /\ request = NoRequest
  /\ \E persist \in BOOLEAN, has_repo \in BOOLEAN :
       service = [ IdleService EXCEPT !.pc = "build", !.persist = persist,
                                      !.has_repo = has_repo ]

\* FailureDetail(...) of one entry of detected_failures; related_claim_ids is
\* not carried by the signals here, so no claim is marked unsupported.
FailureDetail(f) ==
  [ failure_type |-> f.failure_type, detected |-> f.detected,
    confidence |-> f.confidence, severity |-> f.severity, evidence |-> f.evidence ]

\* ClaimAnalysis(...) of one claim: confidence 0.8, no issues
ClaimAnalysis(c) ==
  [ claim_id |-> c.claim_id, is_verifiable |-> TRUE, is_supported |-> TRUE,
    confidence |-> 80, issues |-> << >> ]

\* The field constraints of the response schemas (ge / le) that a final state
\* can break: pydantic raises ValidationError inside _build_response.
ValidationRaises ==
  \/ \E i \in 1..Len(detected_failures) :
        detected_failures[i].confidence < 0 \/ detected_failures[i].confidence > 100
  \/ risk_score < 0 \/ risk_score > 1000
  \/ \E i \in 1..Len(recommendations) :
        recommendations[i].priority < 1 \/ recommendations[i].priority > 5

\* The AnalysisResponse _build_response makes of the final state; metadata
\* (a fresh id and two clock readings) is left out.
_build_response ==
  [ failure_detected |-> failure_detected,
    failure_types |-> failure_types,
    failures |-> [ i \in 1..Len(detected_failures) |-> FailureDetail(detected_failures[i]) ],
    claims |-> [ i \in 1..Len(claims) |-> ClaimAnalysis(claims[i]) ],
    risk_assessment |-> [ risk_score |-> risk_score, risk_level |-> risk_level,
                          domain |-> domain, domain_multiplier |-> domain_multiplier,
                          contributing_factors |-> contributing_factors ],
    recommendations |-> recommendations,
    explanation |-> explanation ]

\* The repository calls _persist_analysis makes for a response, in order.
PersistCalls(response) ==
  << [ op |-> "create", row |-> Len(response.failures) ] >>
    \o [ i \in 1..Len(response.failures) |->
           [ op |-> "add_failure", row |-> response.failures[i] ] ]
    \o [ i \in 1..Len(response.claims) |->
           [ op |-> "add_claim", row |-> response.claims[i] ] ]
    \o [ i \in 1..Len(response.recommendations) |->
           [ op |-> "add_recommendation", row |-> response.recommendations[i] ] ]

\* analyze from _build_response to the test of persist and self._case_repo.
build_response ==
  /\ service.pc = "build"
  /\ service' =
       IF ValidationRaises
       THEN [ service EXCEPT !.pc = "raised" ]
       ELSE IF service.persist /\ service.has_repo
       THEN [ service EXCEPT !.pc = "persist", !.response = _build_response,
                             !.calls = PersistCalls(_build_response), !.at = 1 ]
       ELSE [ service EXCEPT !.pc = "return", !.response = _build_response ]
  /\ UNCHANGED << pc, trace, faults, inputVars, precheckVars, decompositionVars, tasks,
                  signals, aggregationVars, riskVars, explanation, recommendations,
                  errors, node_times, end_time, backend, client, invocations, request >>

\* A handler of the persistence failure that lets it out of the service.
PersistFailedReraising(svc, call) ==
  [ svc EXCEPT !.failed = call.op, !.pc = "raised" ]

\* except Exception: the failure is logged and _persist_analysis returns.
PersistFailed(svc, call) ==
  [ svc EXCEPT !.failed = call.op, !.logged = TRUE, !.pc = "return" ]

\* One repository call of _persist_analysis: the session takes the row, or
\* the call raises.
persist_analysis ==
  /\ service.pc = "persist"
  /\ LET call == service.calls[service.at] IN
     \E ok \in BOOLEAN :
       service' =
         IF ~ok THEN PersistFailed(service, call)
         ELSE [ service EXCEPT !.rows = Append(@, call),
                               !.at = @ + 1,
                               !.pc = IF service.at = Len(service.calls)
                                      THEN "return" ELSE "persist" ]
  /\ UNCHANGED << pc, trace, faults, inputVars, precheckVars, decompositionVars, tasks,
                  signals, aggregationVars, riskVars, explanation, recommendations,
                  errors, node_times, end_time, backend, client, invocations, request >>

\* return response
analyze_return ==
  /\ service.pc = "return"
  /\ service' = [ service EXCEPT !.pc = "returned", !.returned = service.response ]
  /\ UNCHANGED << pc, trace, faults, inputVars, precheckVars, decompositionVars, tasks,
                  signals, aggregationVars, riskVars, explanation, recommendations,
                  errors, node_times, end_time, backend, client, invocations, request >>

ServiceNext ==
  \/ build_response
  \/ persist_analysis
  \/ analyze_return

ServiceSpec == ServiceInit /\ [][ServiceNext]_vars

\* ------------------------------------------------------ runs under way together
\* ConcurrentSpec interleaves run_analysis calls on one event loop.  Each call
\* has the state dict create_initial_state made for it; the module globals
\* _compiled_graph and _llm_client are shared.  The errors lists are objects
\* (a state holds a reference): parallel_detectors_node appends to the list
\* it reads from its state, the other nodes build a new list.
MaxInvocations == 2

RunIds == 1..MaxInvocations

\* What one call is given: its answer and what the backend returns to each
\* of its stages (hallucination stands for the detectors that report).
RunInputs ==
  { [ answer |-> PlainAnswer,
      precheck |-> [kind |-> "parsed", is_valid |-> TRUE, proceed |-> TRUE, reason |-> None],
      decomposition |-> [kind |-> "parsed", nclaims |-> 2, reasoning_chain |-> "list"],
      hallucination |-> DetectorResponse("parsed", TRUE, 85, "high", "text") ],
    [ answer |-> PlainAnswer,
      precheck |-> [kind |-> "parsed", is_valid |-> TRUE, proceed |-> TRUE, reason |-> None],
      decomposition |-> [kind |-> "parsed", nclaims |-> 2, reasoning_chain |-> "scalar"],
      hallucination |-> DetectorResponse("parsed", FALSE, 0, "low", "none") ],
    [ answer |-> PlainAnswer,
      precheck |-> [kind |-> "raise", is_valid |-> TRUE, proceed |-> TRUE, reason |-> None],
      decomposition |-> [kind |-> "parse_error", nclaims |-> 0, reasoning_chain |-> "list"],
      hallucination |-> DetectorResponse("raise", FALSE, 0, "low", "none") ],
    [ answer |-> EmptyText,
      precheck |-> [kind |-> "parsed", is_valid |-> TRUE, proceed |-> TRUE, reason |-> None],
      decomposition |-> [kind |-> "parsed", nclaims |-> 2, reasoning_chain |-> "list"],
      hallucination |-> DetectorResponse("parsed", FALSE, 0, "low", "none") ] }

\* The question of every call.
PlainQuestion == Text(12, FALSE, FALSE, FALSE, << 12 >>)

\* List objects: the one a call's initial state gets, and those its nodes build.
ListIds == { << r, n >> : r \in 0..MaxInvocations, n \in 0..3 }

\* A literal shared by every call, as a default evaluated once would be.
SharedErrorsList(r) == << 0, 0 >>

\* errors=[] in create_initial_state: a new list for each call
InitialErrorsList(r) == << r, 0 >>

\* The state dict of a call that has not been made.
NewState ==
  [ pc |-> "new", input |-> CHOOSE i \in RunInputs : TRUE, allocated |-> 0,
    precheck_passed |-> FALSE, precheck_failure_reason |-> None,
    claims |-> << >>, reasoning_steps |-> "empty",
    signals |-> [ k \in SignalKeySet |-> NoSignal ],
    detected_failures |-> << >>, failure_detected |-> FALSE, failure_types |-> << >>,
    risk_score |-> 0, risk_level |-> "low",
    explanation |-> << >>, recommendations |-> << >>,
    errors |-> << 0, 0 >> ]

\* create_initial_state
create_initial_state(r, input) ==
  [ NewState EXCEPT !.pc = "precheck", !.input = input, !.errors = InitialErrorsList(r) ]

\* The backend response of one detector of a call.
InvocationResponse(st, k) ==
  IF k = "hallucination_signal" THEN st.input.hallucination
  ELSE DetectorResponse("parsed", FALSE, 0, "low", "none")

\* state.get("errors", []) + [entry]: a new list object
WithNewErrors(r, st, lists, node) ==
  LET id == << r, st.allocated + 1 >> IN
  [ st |-> [ st EXCEPT !.errors = id, !.allocated = @ + 1 ],
    lists |-> [ lists EXCEPT ![id] = Append(lists[st.errors], ErrorEntry(node)) ] ]

\* The node a call runs next, as a function of that call's state and of the
\* list objects: the state after the node's updates are merged, and the
\* list objects after it.
RunNode(r, st, lists) ==
  LET same == [ st |-> st, lists |-> lists ] IN
  CASE st.pc = "precheck" ->
         LET res == PrecheckResult(strip(PlainQuestion), strip(st.input.answer),
                                   st.input.precheck)
             out == IF res.error THEN WithNewErrors(r, st, lists, "precheck") ELSE same
         IN [ out EXCEPT !.st.precheck_passed = res.precheck_passed,
                         !.st.precheck_failure_reason = res.precheck_failure_reason,
                         !.st.pc = should_continue_after_precheck(res.precheck_passed) ]
    [] st.pc = "early_exit" ->
         [ same EXCEPT !.st.explanation = << "Analysis skipped: ", st.precheck_failure_reason >>,
                       !.st.pc = "done" ]
    [] st.pc = "decomposition" ->
         LET d == st.input.decomposition IN
         IF d.kind = "parsed"
         THEN [ same EXCEPT !.st.claims = IF d.nclaims = 0
                                          THEN _fallback_claim_extraction(st.input.answer)
                                          ELSE [ i \in 1..d.nclaims |-> ClaimData(i, "factual") ],
                            !.st.reasoning_steps = d.reasoning_chain,
                            !.st.pc = "parallel_detectors" ]
         ELSE [ WithNewErrors(r, st, lists, "decomposition")
                  EXCEPT !.st.claims = _fallback_claim_extraction(st.input.answer),
                         !.st.pc = "parallel_detectors" ]
    [] st.pc = "parallel_detectors" ->
         LET raised(k) == k = "logical_signal" /\ st.reasoning_steps = "scalar"
             ts == [ k \in SignalKeySet |->
                       IF raised(k) THEN RaisedTask
                       ELSE DetectorResult(k, InvocationResponse(st, k), lists[st.errors]) ]
         IN [ st |-> [ st EXCEPT !.signals =
                                   [ k \in SignalKeySet |->
                                       IF ts[k].status = "returned" THEN ts[k].signal
                                       ELSE st.signals[k] ],
                                 !.pc = "aggregation" ],
              \* errors.append(...) on the list the state refers to
              lists |-> [ lists EXCEPT ![st.errors] = MergedErrors(ts, lists[st.errors]) ] ]
    [] st.pc = "aggregation" ->
         LET collected == CollectSignals(st.signals)
             retained == SeqFilter(collected, Retain)
         IN IF \E i \in 1..Len(collected) : ComparisonRaises(collected[i])
            THEN [ same EXCEPT !.st.pc = "raised" ]
            ELSE [ same EXCEPT !.st.detected_failures = SortByConfidence(retained),
                               !.st.failure_detected = (Len(retained) > 0),
                               !.st.failure_types = TypesOf(retained),
                               !.st.pc = "risk_scoring" ]
    [] st.pc = "risk_scoring" ->
         LET capped == CapRisk(TotalRisk(st.detected_failures, DomainOrder[1])) IN
         [ same EXCEPT !.st.risk_score = RoundTo(capped, 10000),
                       !.st.risk_level = RiskLevel(capped),
                       !.st.pc = "explanation" ]
    [] st.pc = "explanation" ->
         IF st.detected_failures = << >>
         THEN [ same EXCEPT !.st.explanation = _generate_no_failure_explanation,
                            !.st.pc = "recommendation" ]
         ELSE IF FormatRaises(st.detected_failures)
         THEN [ same EXCEPT !.st.pc = "raised" ]
         ELSE [ same EXCEPT !.st.explanation = << "summary", "\n\n", "detailed_explanation" >>,
                            !.st.pc = "recommendation" ]
    [] st.pc = "recommendation" ->
         [ same EXCEPT !.st.recommendations =
                         LimitRecommendations(
                           SortAscending(StaticRecommendations(st.detected_failures),
                                         RecPriority)),
                       !.st.pc = "finalize" ]
    [] st.pc = "finalize" -> [ same EXCEPT !.st.pc = "done" ]
    [] OTHER -> same

\* A call is made: run_analysis up to graph.ainvoke.
run_analysis(r) ==
  /\ invocations.state[r].pc = "new"
  /\ \E input \in RunInputs :
       invocations' =
         [ invocations EXCEPT !.state[r] = create_initial_state(r, input),
                              !.compiled_graph = TRUE ]
  /\ UNCHANGED << pc, trace, faults, inputVars, precheckVars, decompositionVars, tasks,
                  signals, aggregationVars, riskVars, explanation, recommendations,
                  errors, node_times, end_time, backend, client, service, request >>

\* graph.ainvoke of call r runs its next node.
ainvoke(r) ==
  /\ invocations.state[r].pc \notin {"new", "done", "raised"}
  /\ LET out == RunNode(r, invocations.state[r], invocations.lists) IN
       invocations' =
         [ invocations EXCEPT !.state[r] = out.st,
                              !.lists = out.lists,
                              !.llm_client =
                                @ \/ invocations.state[r].pc \in
                                       {"precheck", "decomposition", "parallel_detectors",
                                        "explanation"} ]
  /\ UNCHANGED << pc, trace, faults, inputVars, precheckVars, decompositionVars, tasks,
                  signals, aggregationVars, riskVars, explanation, recommendations,
                  errors, node_times, end_time, backend, client, service, request >>

ConcurrentInit ==
  /\ pc = "precheck"
  /\ trace = << >>
  /\ faults = 0
  /\ question = PlainQuestion
  /\ answer = PlainAnswer
  /\ domain = DomainOrder[1]
  /\ precheck_passed = FALSE
  /\ precheck_failure_reason = None
  /\ answer_type = "unknown"
  /\ claims = << >>
  /\ assumptions = {}
  /\ reasoning_steps = "empty"
  /\ tasks = [ k \in SignalKeySet |-> IdleTask ]
  /\ signals = [ k \in SignalKeySet |-> NoSignal ]
  /\ failure_signals = << >>
  /\ detected_failures = << >>
  /\ failure_detected = FALSE
  /\ failure_types = << >>
  /\ risk_score = 0
  /\ risk_level = "low"
  /\ domain_multiplier = 10
  /\ contributing_factors = << >>
  /\ explanation = << >>
  /\ recommendations = << >>
  /\ errors = << >>
  /\ node_times = {}
  /\ end_time = 0
  /\ backend = [ s \in Stages |-> NoCall ]
  /\ client = IdleClient
  /\ service = IdleService
  /\ invocations =
       [ compiled_graph |-> FALSE, llm_client |-> FALSE,
         lists |-> [ id \in ListIds |-> << >> ],
         state |-> [ r \in RunIds |-> NewState ] ]
  /\ request = NoRequest

ConcurrentNext ==
  \/ \E r \in RunIds : run_analysis(r)
  \/ \E r \in RunIds : ainvoke(r)

ConcurrentSpec == ConcurrentInit /\ [][ConcurrentNext]_vars

\* ------------------------------------------------------ the analyze endpoint
\* ApiSpec follows one POST /api/analyze: FastAPI validates the body as an
\* AnalysisRequest, and analyze_llm_output hands a valid one to
\* AnalysisService.analyze, which starts the pipeline with run_analysis.
RequestQuestions ==
  Questions \cup { Text(10001, FALSE, FALSE, FALSE, << 10001 >>) }

RequestAnswers ==
  Answers \cup { Text(50001, FALSE, FALSE, FALSE, << 50001 >>) }

\* A text that passes once it holds one character, blank or not.
ValidateLengthOnly(t, max_length) ==
  IF t.len < 1 \/ t.len > max_length
  THEN [ ok |-> FALSE, value |-> t ]
  ELSE [ ok |-> TRUE, value |-> strip(t) ]

\* One str field of AnalysisRequest: the Field constraints min_length=1 and
\* max_length on the value sent, then the validators in the order they are
\* defined: strip_whitespace, then the one raising ValueError if not v.strip().
ValidateText(t, max_length) ==
  IF t.len < 1 \/ t.len > max_length
  THEN [ ok |-> FALSE, value |-> t ]
  ELSE LET v == strip(t) IN
       IF strip(v).len = 0
       THEN [ ok |-> FALSE, value |-> v ]
       ELSE [ ok |-> TRUE, value |-> v ]

\* The body is validated; a ValidationError is answered with 422.
validate_request ==
  /\ request.pc = "received"
  /\ LET q == ValidateText(request.question, 10000)
         a == ValidateText(request.llm_answer, 50000)
     IN request' =
          IF q.ok /\ a.ok
          THEN [ request EXCEPT !.pc = "validated", !.validated =
                                  [ question |-> q.value, llm_answer |-> a.value ] ]
          ELSE [ request EXCEPT !.pc = "rejected", !.status = 422 ]
  /\ UNCHANGED << pc, trace, faults, inputVars, precheckVars, decompositionVars, tasks,
                  signals, aggregationVars, riskVars, explanation, recommendations,
                  errors, node_times, end_time, backend, client, service, invocations >>

\* analyze_llm_output calls service.analyze, which calls run_analysis with
\* the validated fields: the initial state is made and precheck is next.
analyze_llm_output ==
  /\ request.pc = "validated"
  /\ pc = "new"
  /\ request' = [ request EXCEPT !.pc = "analyzing" ]
  /\ question' = request.validated.question
  /\ answer' = request.validated.llm_answer
  /\ pc' = "precheck"
  /\ UNCHANGED << trace, faults, domain, precheckVars, decompositionVars, tasks,
                  signals, aggregationVars, riskVars, explanation, recommendations,
                  errors, node_times, end_time, backend, client, service, invocations >>

ApiInit ==
  /\ pc = "new"
  /\ trace = << >>
  /\ faults = 0
  /\ question = EmptyText
  /\ answer = EmptyText
  /\ domain \in Domains
  /\ precheck_passed = FALSE
  /\ precheck_failure_reason = None
  /\ answer_type = "unknown"
  /\ claims = << >>
  /\ assumptions = {}
  /\ reasoning_steps = "empty"
  /\ tasks = [ k \in SignalKeySet |-> IdleTask ]
  /\ signals = [ k \in SignalKeySet |-> NoSignal ]
  /\ failure_signals = << >>
  /\ detected_failures = << >>
  /\ failure_detected = FALSE
  /\ failure_types = << >>
  /\ risk_score = 0
  /\ risk_level = "low"
  /\ domain_multiplier = 10
  /\ contributing_factors = << >>
  /\ explanation = << >>
  /\ recommendations = << >>
  /\ errors = << >>
  /\ node_times = {}
  /\ end_time = 0
  /\ backend = [ s \in Stages |-> NoCall ]
  /\ client = IdleClient
  /\ service = IdleService
  /\ invocations = NoInvocations
  /\ \E q \in RequestQuestions, a \in RequestAnswers :
       request = [ pc |-> "received", status |-> 0, question |-> q, llm_answer |-> a,
                   validated |-> [ question |-> EmptyText, llm_answer |-> EmptyText ] ]

ApiNext ==
  \/ validate_request
  \/ analyze_llm_output
  \/ precheck_node

ApiSpec == ApiInit /\ [][ApiNext]_vars

\* ==================================================================== claims
InTrace(node) == \E i \in 1..Len(trace) : trace[i] = node

IsPrefix(s, t) == Len(s) <= Len(t) /\ \A i \in 1..Len(s) : s[i] = t[i]

StageOrder ==
  << "precheck", "decomposition", "parallel_detectors", "aggregation",
     "risk_scoring", "explanation", "recommendation", "finalize" >>

\* C1: in every run in which precheck passes, the stages run once each in the
\* order precheck, decomposition, parallel detection, aggregation, risk
\* scoring, explanation, recommendation, finalize and the run ends in done:
\* the executed stages are always a prefix of that order, the run never stops
\* short of done, and at done every stage has run.
C1_StagesInOrder ==
  precheck_passed =>
    /\ IsPrefix(trace, StageOrder)
    /\ pc # "raised"
    /\ pc = "done" => trace = StageOrder

\* C2: aggregation never begins while one of the six detector tasks is still
\* pending; each has returned or has had its exception captured.
C2_FanInWaitsForAll ==
  (pc = "aggregation" \/ InTrace("aggregation")) =>
    \A k \in SignalKeySet : tasks[k].status \in Terminal

C2_Witness ==
  /\ pc = "aggregation"
  /\ tasks["logical_signal"].status = "raised"
  /\ tasks["hallucination_signal"].status = "returned"

\* A detector whose run ended in an exception: one that escaped the coroutine
\* or one its own except clause handled (a failed model call).
DetectorFailed(k) ==
  \/ tasks[k].status = "raised"
  \/ tasks[k].status = "returned" /\ tasks[k].has_errors

\* C3: when exactly one detector raises during a run, the final state holds
\* the signals of the other five and the final errors list has an entry for
\* the failed detector.
C3_OneDetectorFails ==
  \A k \in SignalKeySet :
    ( /\ pc = "done"
      /\ InTrace("parallel_detectors")
      /\ DetectorFailed(k)
      /\ \A j \in SignalKeySet \ {k} : ~DetectorFailed(j) )
    => /\ \A j \in SignalKeySet \ {k} : signals[j] # NoSignal
       /\ \E i \in 1..Len(errors) :
            errors[i].node \in {DetectorNodeOf[k], "parallel_detectors"}

\* C4: whatever the backend does, run_analysis does not raise, and the state
\* it returns is complete: explanation, risk level and end time are set.
C4_AlwaysReturnsState ==
  /\ pc # "raised"
  /\ pc = "done" => explanation # << >> /\ end_time # 0

\* C5: a run whose precheck fails goes precheck, early_exit, done and runs no
\* other stage; a run whose precheck passes never runs early_exit.
C5_EarlyExitShortCircuit ==
  /\ (InTrace("precheck") /\ ~precheck_passed) =>
       /\ pc \in {"early_exit", "done"}
       /\ IsPrefix(trace, << "precheck", "early_exit" >>)
       /\ pc = "done" => trace = << "precheck", "early_exit" >>
  /\ precheck_passed => pc # "early_exit" /\ ~InTrace("early_exit")

C5_Witness ==
  /\ pc = "done"
  /\ ~precheck_passed
  /\ trace = << "precheck", "early_exit" >>

EmptyAnswerResult ==
  /\ failure_detected = FALSE
  /\ risk_score = 0
  /\ risk_level = "low"
  /\ \E i \in 1..Len(explanation) : explanation[i] = "Answer is empty"

\* C6 as claimed: every run given an empty answer ends with no failure
\* detected, risk score 0.0, level low and an explanation containing
\* "Answer is empty".
C6_EmptyAnswer ==
  (pc = "done" /\ answer.len = 0) => EmptyAnswerResult

\* C6 as amended: every run given an empty answer and a question that is not
\* empty after stripping ends with no failure detected, risk score 0.0, level
\* low and an explanation containing "Answer is empty".
C6_EmptyAnswerWithQuestion ==
  (pc = "done" /\ answer.len = 0 /\ ~question.blank) => EmptyAnswerResult

C6_Witness ==
  /\ pc = "done"
  /\ answer.len = 0
  /\ ~question.blank
  /\ explanation = << "Analysis skipped: ", "Answer is empty" >>

\* C7: the stored risk_score is in [0, 1] in every state (thousandths).
C7_RiskScoreInRange == risk_score >= 0 /\ risk_score <= 1000

C7_Witness ==
  /\ InTrace("risk_scoring")
  /\ TotalRisk(detected_failures, domain) > RiskUnit
  /\ risk_score = 1000

\* The threshold function of a reported score, in thousandths.
LevelOfReported(score) ==
  IF score < 250 THEN "low"
  ELSE IF score < 500 THEN "medium"
  ELSE IF score < 750 THEN "high"
  ELSE "critical"

\* C8: in every final state the reported risk_level is the threshold function
\* of the reported risk_score.
C8_LevelIsFunctionOfScore ==
  pc = "done" => risk_level = LevelOfReported(risk_score)

RECURSIVE RawSumFrom(_)
\* Sum over the slots i.. of confidence x weight x severity x domain of the
\* signals that are detected with confidence >= 0.5, default tables.
RawSumFrom(i) ==
  IF i > Len(signal_keys) THEN 0
  ELSE LET sig == signals[signal_keys[i]] IN
       (IF sig # NoSignal /\ sig.detected /\ sig.confidence >= 50
        THEN sig.confidence * failure_weights[sig.failure_type]
               * severity_multipliers[sig.severity] * domain_multipliers[domain]
        ELSE 0) + RawSumFrom(i + 1)

C9_WitnessCap ==
  /\ InTrace("risk_scoring")
  /\ RawSumFrom(1) = 13000000
  /\ risk_score = 1000

\* C10: after aggregation a signal is in detected_failures exactly when it is
\* detected with confidence >= 0.5, and every element of detected_failures is
\* in failure_signals with confidence >= 0.5.
C10_RetainedIffDetected ==
  (InTrace("aggregation") /\ pc # "raised") =>
    /\ \A k \in SignalKeySet :
         signals[k] # NoSignal =>
           ( (\E i \in 1..Len(detected_failures) : detected_failures[i] = signals[k])
             <=> (signals[k].detected /\ signals[k].confidence >= 50) )
    /\ \A i \in 1..Len(detected_failures) :
         /\ \E j \in 1..Len(failure_signals) : failure_signals[j] = detected_failures[i]
         /\ detected_failures[i].confidence >= 50

C10_Witness ==
  /\ InTrace("aggregation")
  /\ \E i \in 1..Len(detected_failures) : detected_failures[i].confidence = 50
  /\ \E k \in SignalKeySet : signals[k].detected /\ signals[k].confidence = 49
  /\ \E k \in SignalKeySet : ~signals[k].detected /\ signals[k].confidence = 90

\* C11: in every state the confidence of every signal held in the state (the
\* six slots, failure_signals, detected_failures) is in [0, 1] (hundredths).
C11_ConfidenceInRange ==
  /\ \A k \in SignalKeySet : signals[k].confidence \in 0..100
  /\ \A i \in 1..Len(failure_signals) : failure_signals[i].confidence \in 0..100
  /\ \A i \in 1..Len(detected_failures) : detected_failures[i].confidence \in 0..100

C13_FallbackGivesAClaim ==
  ( /\ InTrace("decomposition")
    /\ backend["decomposition"].kind = "parse_error"
    /\ Len(strip(answer).sentences) >= 2 )
  => Len(claims) >= 1

\* C14: a detector whose model call raised or gave output flagged as a parse
\* failure does not raise: it returns, and its slot holds the default signal
\* of its own failure type: not detected, confidence 0.0, severity low, no
\* evidence; after the fan-in the state's slot holds that signal.
C14_DefaultSignalOnFailure ==
  \A k \in SignalKeySet :
    backend[DetectorNodeOf[k]].kind \in {"raise", "parse_error"} =>
      /\ tasks[k].status = "returned"
      /\ tasks[k].signal =
           [ failure_type |-> FailureTypeOf[k], detected |-> FALSE, confidence |-> 0,
             severity |-> "low", evidence |-> "none" ]
      /\ pc # "parallel_detectors" => signals[k] = tasks[k].signal

C14_Witness ==
  /\ pc = "done"
  /\ backend["scope_detector"].kind = "parse_error"
  /\ signals["scope_signal"].failure_type = "scope_violation"
  /\ signals["scope_signal"].confidence = 0
  /\ signals["hallucination_signal"].detected

\* C15: a generate request that fails with a connection error or a timeout
\* is sent again, up to 3 attempts in all, before the failure reaches the
\* caller; a failure of another kind reaches the caller after the attempt it
\* happened in.
C15_RetriesNetworkFailures ==
  client.pc = "raised" =>
    /\ client.failure \in {"timeout", "connect"} => client.attempts = 3
    /\ client.attempts <= 3

RECURSIVE MatchingBrace(_, _, _)
\* Index of the brace that closes the span opened before index i, at the
\* given depth; 0 when the text ends first.
MatchingBrace(t, i, depth) ==
  IF i > Len(t) THEN 0
  ELSE IF t[i] = "}" THEN (IF depth = 1 THEN i ELSE MatchingBrace(t, i + 1, depth - 1))
  ELSE IF t[i] = "{" THEN MatchingBrace(t, i + 1, depth + 1)
  ELSE MatchingBrace(t, i + 1, depth)

\* The first balanced {...} span of a text.
FirstBalancedSpan(t) ==
  LET starts == { i \in Positions(t, "{") : MatchingBrace(t, i + 1, 1) # 0 } IN
  IF starts = {} THEN NoMatch
  ELSE [ found |-> TRUE,
         text |-> SubSeq(t, Least(starts), MatchingBrace(t, Least(starts) + 1, 1)) ]

\* C16: generate_structured returns the parse of the full response; failing
\* that, of the contents of a fenced block; failing that, of the first
\* balanced {...} span; and the sentinel with the raw text only when all
\* three fail.
C16_ParsingOrder ==
  client.pc = "returned" =>
    LET t == client.response IN
    client.result =
      IF json_loads(t) THEN [ kind |-> "parsed", text |-> t ]
      ELSE IF FencedBlock(t).found /\ json_loads(FencedBlock(t).text)
      THEN [ kind |-> "parsed", text |-> FencedBlock(t).text ]
      ELSE IF FirstBalancedSpan(t).found /\ json_loads(FirstBalancedSpan(t).text)
      THEN [ kind |-> "parsed", text |-> FirstBalancedSpan(t).text ]
      ELSE [ kind |-> "parse_error", text |-> t ]

\* C17: for a question and an answer that are not empty, the answer matching
\* neither the short-refusal nor the short-error rule, precheck asks the
\* model; when the call raises or its output is flagged as a parse failure,
\* precheck_passed is true and the run goes on to decomposition; when the
\* output parses, precheck_passed is is_valid AND proceed_with_analysis.
C17_PrecheckDefaultsToPass ==
  ( /\ InTrace("precheck")
    /\ ~strip(question).blank
    /\ ~strip(answer).blank
    /\ ~(answer.refusal /\ answer.len < 200)
    /\ ~(answer.error /\ answer.len < 500) )
  => LET r == backend["precheck"] IN
     /\ r.kind \in {"raise", "parse_error", "parsed"}
     /\ r.kind \in {"raise", "parse_error"} =>
          /\ precheck_passed
          /\ pc = "decomposition" \/ (Len(trace) >= 2 /\ trace[2] = "decomposition")
     /\ r.kind = "parsed" => (precheck_passed <=> (r.is_valid /\ r.proceed))

C17_Witness ==
  /\ backend["precheck"].kind = "parse_error"
  /\ precheck_passed
  /\ InTrace("decomposition")

\* C18: precheck's rules apply in a fixed order, the first match deciding:
\* empty question: rejected, "Question is empty"; empty answer: rejected,
\* "Answer is empty"; refusal phrase in fewer than 200 characters: passed as
\* a refusal; error phrase in fewer than 500 characters: rejected as an
\* error message.  An answer under 200 characters holding both phrases is
\* passed as a refusal.
C18_RuleOrder ==
  InTrace("precheck") =>
    IF strip(question).blank
    THEN ~precheck_passed /\ precheck_failure_reason = "Question is empty"
    ELSE IF strip(answer).blank
    THEN ~precheck_passed /\ precheck_failure_reason = "Answer is empty"
    ELSE IF answer.refusal /\ answer.len < 200
    THEN precheck_passed /\ answer_type = "refusal"
    ELSE IF answer.error /\ answer.len < 500
    THEN /\ ~precheck_passed
         /\ precheck_failure_reason = "Answer appears to be an error message"
         /\ answer_type = "error"
    ELSE TRUE

C18_Witness ==
  /\ InTrace("precheck")
  /\ answer.refusal /\ answer.error /\ answer.len < 200
  /\ precheck_passed
  /\ answer_type = "refusal"
  /\ pc = "done"

\* C19: every model call returning or failing, a run goes on until it is in
\* done, and done has no successor: no step starts in done, and no step ends
\* the run anywhere else (a step that raises out of graph.ainvoke ends it in
\* "raised").  Every step appends to trace or finishes a task, so no run
\* goes on forever.
C19_RunsOnToDone == [][ pc # "done" /\ pc' # "raised" ]_vars

\* C20: whenever a stage (precheck, decomposition, a detector, explanation,
\* recommendation) was handed model output flagged as a parse failure and fell
\* back to its default, the errors list of the finished run holds an entry
\* for that stage.
C20_ParseFailuresRecorded ==
  pc = "done" =>
    \A s \in Stages :
      backend[s].kind = "parse_error" =>
        \E i \in 1..Len(errors) : errors[i].node = s

\* C21: when a repository call of _persist_analysis fails (creating the case
\* or adding a failure, a claim or a recommendation), analyze does not raise
\* and returns the response it built from the pipeline result, unchanged.
C21_PersistFailureSwallowed ==
  service.failed # None =>
    /\ service.pc \in {"return", "returned"}
    /\ service.response = _build_response
    /\ service.pc = "returned" => service.returned = _build_response

\* A later repository call failed, after rows were written, and analyze has
\* returned.
C21_Witness ==
  /\ service.pc = "returned"
  /\ service.failed = "add_claim"
  /\ Len(service.rows) >= 2
  /\ service.returned.failures # << >>

\* What a call's state holds, its errors list read through the reference.
StateOf(st, lists) == [ st EXCEPT !.errors = lists[st.errors], !.allocated = 0 ]

RECURSIVE RunAlone(_, _, _)
\* The state a call ends with when no other call is made.
RunAlone(r, st, lists) ==
  IF st.pc \in {"done", "raised"} THEN StateOf(st, lists)
  ELSE LET out == RunNode(r, st, lists) IN RunAlone(r, out.st, out.lists)

\* C22: with run_analysis calls interleaved, a node of one call leaves what
\* every other call's state holds as it was, and a call that has ended holds
\* the state it ends with when it runs alone on the same backend responses.
C22_RunsAreIsolated ==
  [][ \A r \in RunIds :
        /\ invocations'.state[r] # invocations.state[r] =>
             \A o \in RunIds \ {r} :
               StateOf(invocations'.state[o], invocations'.lists)
                 = StateOf(invocations.state[o], invocations.lists)
        /\ invocations'.state[r].pc \in {"done", "raised"} =>
             StateOf(invocations'.state[r], invocations'.lists)
               = RunAlone(r, create_initial_state(r, invocations'.state[r].input),
                          [ id \in ListIds |-> << >> ]) ]_vars

\* Two calls have ended, both through parallel detection, the first with an
\* entry appended to its errors list in place while the second was under way.
C22_Witness ==
  /\ invocations.state[1].pc = "done"
  /\ invocations.state[2].pc = "done"
  /\ invocations.lists[invocations.state[1].errors] # << >>
  /\ invocations.state[1].errors = << 1, 0 >>
  /\ invocations.lists[invocations.state[2].errors] = << >>
  /\ invocations.state[2].detected_failures # << >>

\* C23: each of the six signal slots is empty or holds a signal whose
\* failure_type is that of the detector owning the slot, and a slot changes
\* only once, from empty, while the run is in parallel detection: no later
\* stage writes it.
C23_SlotsTypedAndWrittenOnce ==
  /\ [](\A k \in SignalKeySet :
          signals[k] = NoSignal \/ signals[k].failure_type = FailureTypeOf[k])
  /\ [][ \A k \in SignalKeySet :
           signals'[k] # signals[k] =>
             /\ pc = "parallel_detectors"
             /\ signals[k] = NoSignal ]_vars

\* A finished run with a slot left empty by a detector that raised, a slot
\* holding a reported failure and a slot holding a default signal.
C23_Witness ==
  /\ pc = "done"
  /\ InTrace("finalize")
  /\ signals["logical_signal"] = NoSignal
  /\ signals["overconfidence_signal"].detected
  /\ signals["overconfidence_signal"].failure_type = "overconfidence"
  /\ signals["scope_signal"] = _create_default_signal("scope_signal")

\* C24: a request to the analyze endpoint whose question or llm_answer is
\* empty or holds only whitespace is rejected by the validation of the body
\* (status 422), and the pipeline is never started for it.
C24_BlankRequestRejected ==
  (request.question.blank \/ request.llm_answer.blank) =>
    /\ request.pc \in {"received", "rejected"}
    /\ request.pc = "rejected" => request.status = 422
    /\ pc = "new"
    /\ trace = << >>

\* A question of three blanks, which min_length lets through, was rejected
\* together with an answer that is well formed.
C24_Witness ==
  /\ request.pc = "rejected"
  /\ request.question.blank
  /\ request.question.len = 3
  /\ ~request.llm_answer.blank
  /\ request.llm_answer.len <= 50000

\* Place of a failure type in the order the slots are read.
EncounterIndex(failure_type) ==
  CHOOSE i \in 1..Len(signal_keys) : FailureTypeOf[signal_keys[i]] = failure_type

\* C25: after aggregation detected_failures is in descending order of
\* confidence, and retained signals of equal confidence are in the order
\* hallucination, logical, assumptions, overconfidence, scope,
\* underspecification.
C25_SortedByConfidence ==
  (InTrace("aggregation") /\ pc # "raised") =>
    \A i, j \in 1..Len(detected_failures) :
      i < j =>
        /\ detected_failures[i].confidence >= detected_failures[j].confidence
        /\ detected_failures[i].confidence = detected_failures[j].confidence =>
             EncounterIndex(detected_failures[i].failure_type)
               < EncounterIndex(detected_failures[j].failure_type)

\* Aggregation retained two signals of confidence 0.85 behind one of higher
\* confidence that was read after them.
C25_Witness ==
  /\ pc = "risk_scoring"
  /\ Len(detected_failures) = 3
  /\ detected_failures[1].confidence > detected_failures[2].confidence
  /\ detected_failures[2].confidence = detected_failures[3].confidence
  /\ EncounterIndex(detected_failures[1].failure_type)
       > EncounterIndex(detected_failures[3].failure_type)

\* C26: after aggregation failure_types holds the failure types of
\* detected_failures, each once, in the order of detected_failures (descending
\* confidence).
C26_TypesInSortedOrder ==
  (InTrace("aggregation") /\ pc # "raised") =>
    failure_types = TypesOf(detected_failures)

\* C27: in every final state, reached through finalize or through
\* early_exit, failure_detected is true exactly if detected_failures is not
\* empty, and failure_types is not empty exactly if detected_failures is not
\* empty.
C27_FlagsAgree ==
  pc = "done" =>
    /\ failure_detected <=> detected_failures # << >>
    /\ failure_types # << >> <=> detected_failures # << >>

\* A run that ended through finalize with a retained failure.
C27_Witness ==
  /\ pc = "done"
  /\ trace[Len(trace)] = "finalize"
  /\ failure_detected
  /\ Len(detected_failures) >= 1
  /\ Len(failure_types) >= 1

\* C28: after risk scoring contributing_factors holds one entry for each
\* retained failure, and the stored list is in descending order of
\* contribution, whatever the order of detected_failures.
C28_FactorsByContribution ==
  InTrace("risk_scoring") =>
    /\ Len(contributing_factors) = Len(detected_failures)
    /\ \A i, j \in 1..Len(contributing_factors) :
         i < j => contributing_factors[i].contribution >= contributing_factors[j].contribution

\* C29: when the decomposition model call fails or its output is flagged as
\* a parse failure, the stage stores at most 20 claims, each of type factual
\* with no implicit assumption and an id no other stored claim has, an empty
\* assumptions list and an empty reasoning_steps list, and the run goes on to
\* parallel detection.
C29_FallbackDecomposition ==
  (InTrace("decomposition") /\ backend["decomposition"].kind \in {"raise", "parse_error"}) =>
    /\ Len(claims) <= 20
    /\ \A i \in 1..Len(claims) :
         /\ claims[i].claim_type = "factual"
         /\ claims[i].implicit_assumptions = {}
         /\ \A j \in 1..Len(claims) : claims[i].claim_id = claims[j].claim_id => i = j
    /\ assumptions = {}
    /\ reasoning_steps = "empty"
    /\ trace[Len(trace)] = "decomposition" => pc = "parallel_detectors"
    /\ pc = "done" => InTrace("parallel_detectors")

\* The model call failed on an answer of 22 sentences: 20 claims are stored
\* and parallel detection has begun.
C29_Witness ==
  /\ backend["decomposition"].kind = "raise"
  /\ Len(strip(answer).sentences) = 22
  /\ Len(claims) = 20
  /\ pc = "parallel_detectors"
  /\ trace[Len(trace)] = "parallel_detectors"

\* C30: after the explanation stage the explanation text is not empty: with
\* no retained failure it is the templated low-risk statement, with retained
\* failures and a model call that failed or gave unparsable output it is
\* the fallback built from the retained failure types, the risk score and
\* the risk level; every run that reaches done has a non-empty explanation.
C30_ExplanationNeverEmpty ==
  /\ (InTrace("explanation") /\ pc \in {"recommendation", "finalize", "done"}) =>
       /\ explanation # << >>
       /\ detected_failures = << >> => explanation = _generate_no_failure_explanation
       /\ (detected_failures # << >>
             /\ backend["explanation"].kind \in {"raise", "parse_error"}) =>
            /\ explanation = _generate_fallback_explanation(detected_failures)
            /\ \A i \in 1..Len(detected_failures) :
                 explanation[4][i] = detected_failures[i].failure_type
  /\ pc = "done" => explanation # << >>

\* A finished run whose explanation model call gave unparsable output for a
\* retained failure.
C30_Witness ==
  /\ pc = "done"
  /\ backend["explanation"].kind = "parse_error"
  /\ detected_failures # << >>
  /\ explanation = _generate_fallback_explanation(detected_failures)

\* ------------------------------------------------------ recommendation in depth
\* RecSpec starts a run where explanation_node hands over to
\* recommendation_node, for six detectors that each got one of these parsed
\* responses (any number of them reporting), and lets it run to its end.
RecShapes ==
  { DetectorResponse("parsed", FALSE, 0, "low", "none"),
    DetectorResponse("parsed", TRUE, 85, "low", "text"),
    DetectorResponse("parsed", TRUE, 60, "critical", "text") }

RecDomains == { DomainOrder[1], DomainOrder[2] }

RecInit ==
  /\ pc = "recommendation"
  /\ trace = << "precheck", "decomposition", "parallel_detectors", "aggregation",
               "risk_scoring", "explanation" >>
  /\ faults = 0
  /\ question = Text(12, FALSE, FALSE, FALSE, << 12 >>)
  /\ answer = PlainAnswer
  /\ domain \in RecDomains
  /\ precheck_passed = TRUE
  /\ precheck_failure_reason = None
  /\ answer_type = "response"
  /\ claims = << ClaimData(1, "factual"), ClaimData(2, "factual") >>
  /\ assumptions = {"a1"}
  /\ reasoning_steps = "list"
  /\ \E resp \in [ SignalKeySet -> RecShapes ] :
       /\ tasks = [ k \in SignalKeySet |-> DetectorResult(k, resp[k], << >>) ]
       /\ backend =
            [ s \in Stages |->
                IF \E k \in SignalKeySet : DetectorNodeOf[k] = s
                THEN resp[CHOOSE k \in SignalKeySet : DetectorNodeOf[k] = s]
                ELSE IF s = "precheck"
                THEN [kind |-> "parsed", is_valid |-> TRUE, proceed |-> TRUE, reason |-> None]
                ELSE IF s = "decomposition"
                THEN [kind |-> "parsed", nclaims |-> 2, reasoning_chain |-> "list"]
                ELSE IF s = "explanation"
                        /\ \E k \in SignalKeySet : Retain(DetectorResult(k, resp[k], << >>).signal)
                THEN [kind |-> "parsed"]
                ELSE NoCall ]
  /\ signals = [ k \in SignalKeySet |-> tasks[k].signal ]
  /\ failure_signals = CollectSignals(signals)
  /\ detected_failures = SortByConfidence(SeqFilter(failure_signals, Retain))
  /\ failure_detected = (Len(detected_failures) > 0)
  /\ failure_types = TypesOf(SeqFilter(failure_signals, Retain))
  /\ risk_score = RoundTo(CapRisk(TotalRisk(detected_failures, domain)), 10000)
  /\ risk_level = RiskLevel(CapRisk(TotalRisk(detected_failures, domain)))
  /\ domain_multiplier = DomainMultiplier(domain)
  /\ contributing_factors =
       [ i \in 1..Len(detected_failures) |-> ContributingFactor(detected_failures[i], domain) ]
  /\ explanation = IF detected_failures = << >> THEN _generate_no_failure_explanation
                   ELSE ParsedExplanation("parsed")
  /\ recommendations = << >>
  /\ errors = << >>
  /\ node_times = MergedNodeTimes(tasks, {"precheck", "decomposition", "aggregation",
                                          "risk_scoring", "explanation"})
  /\ end_time = 0
  /\ client = IdleClient
  /\ service = IdleService
  /\ invocations = NoInvocations
  /\ request = NoRequest

RecNext ==
  \/ recommendation_node
  \/ finalize_node

RecSpec == RecInit /\ [][RecNext]_vars

\* ------------------------------------------------------------------- C31
\* C31: in every final state the recommendations list has at most 10 entries
\* and its priorities ascend over the whole list, entries obtained from the
\* model included.
C31_CappedAndSortedByPriority ==
  (pc = "done" /\ InTrace("recommendation")) =>
    /\ Len(recommendations) <= 10
    /\ \A i, j \in 1..Len(recommendations) :
         i < j => recommendations[i].priority <= recommendations[j].priority

\* ------------------------------------------------------------------- C32
\* The recommendation stage has run and the list holds no entry obtained
\* from the model.
OnlyStaticEntries ==
  /\ InTrace("recommendation")
  /\ \/ backend["recommendation"].kind \in {"none", "raise", "parse_error", "ill_typed"}
     \/ /\ backend["recommendation"].kind = "parsed"
        /\ backend["recommendation"].recs = << >>

\* Place of retained failure i in the visit: behind every failure of a more
\* severe rank and behind the earlier failures of its own rank.
VisitPos(i) ==
  1 + Cardinality({ j \in 1..Len(detected_failures) :
        \/ severity_order[detected_failures[j].severity]
             < severity_order[detected_failures[i].severity]
        \/ /\ severity_order[detected_failures[j].severity]
                = severity_order[detected_failures[i].severity]
           /\ j < i })

\* C32: the static entries are those of the retained types visited in severity
\* order (critical, high, medium, low), two per type (every type of the table
\* has at least two), with the table's priority and with the ids r1, r2, ...
\* counted in the order of generation; every one of them is in the list while
\* the cap of 10 allows; with no retained failure the list is empty.
C32_StaticEntriesBySeverity ==
  OnlyStaticEntries =>
    /\ detected_failures = << >> => recommendations = << >>
    /\ Len(recommendations) =
         (IF 2 * Len(detected_failures) > 10 THEN 10 ELSE 2 * Len(detected_failures))
    /\ \A a, b \in 1..Len(recommendations) :
         a # b => recommendations[a].recommendation_id # recommendations[b].recommendation_id
    /\ \A a \in 1..Len(recommendations) :
         \E i \in 1..Len(detected_failures), j \in 1..2 :
           /\ recommendations[a].failure_type = detected_failures[i].failure_type
           /\ recommendations[a].recommendation_id = 2 * (VisitPos(i) - 1) + j
           /\ recommendations[a].priority
                = RECOMMENDATIONS_DB[detected_failures[i].failure_type][j]

\* A less severe failure of higher confidence stands first in
\* detected_failures, and the first recommendation is r1 of the critical one.
C32_Witness ==
  /\ pc = "done"
  /\ OnlyStaticEntries
  /\ Len(detected_failures) >= 3
  /\ detected_failures[1].severity = "low"
  /\ detected_failures[Len(detected_failures)].severity = "critical"
  /\ recommendations[1].recommendation_id = 1
  /\ recommendations[1].failure_type
       = detected_failures[CHOOSE i \in 1..Len(detected_failures) :
                             detected_failures[i].severity = "critical"].failure_type

\* ------------------------------------------------------------------- C33
\* C33: a step of the recommendation stage issues the model call only for a
\* domain other than general with a retained failure; it adds at most 3
\* entries to the two per retained type; and when the call raises or its output
\* cannot be used, the list holds static-table entries only, errors is as it
\* was, and the run goes on to finalize.
C33_DomainEntriesBestEffort ==
  [][ pc = "recommendation" =>
        LET call == backend'["recommendation"]
            n == Len(detected_failures)
        IN /\ call.kind # "none" => (domain # "general" /\ n > 0)
           /\ Len(recommendations') <= 2 * n + 3
           /\ call.kind \in {"raise", "parse_error", "ill_typed"} =>
                /\ Len(recommendations') = (IF 2 * n > 10 THEN 10 ELSE 2 * n)
                /\ \A a \in 1..Len(recommendations') :
                     LET rec == recommendations'[a] IN
                     /\ rec.recommendation_id \in 1..(2 * n)
                     /\ \E i \in 1..n : rec.failure_type = detected_failures[i].failure_type
                     /\ rec.priority
                          = RECOMMENDATIONS_DB[rec.failure_type][((rec.recommendation_id - 1) % 2) + 1]
                /\ errors' = errors
                /\ pc' = "finalize" ]_vars

\* The model call failed for a run with retained failures, which ended with
\* the static entries and no error entry.
C33_Witness ==
  /\ pc = "done"
  /\ backend["recommendation"].kind \in {"raise", "parse_error", "ill_typed"}
  /\ domain # "general"
  /\ Len(detected_failures) >= 2
  /\ Len(recommendations) = 2 * Len(detected_failures)
  /\ errors = << >>

\* ------------------------------------------------------------------- C40
\* C40: in every final state the recommendation ids of the recommendations
\* list are pairwise distinct, entries obtained from the model included.
C40_RecommendationIdsDistinct ==
  (pc = "done" /\ InTrace("recommendation")) =>
    \A a, b \in 1..Len(recommendations) :
      a # b => recommendations[a].recommendation_id # recommendations[b].recommendation_id

\* ------------------------------------------------------------------- C34
\* C34: while the graph is at parallel_detectors, no step changes a state
\* field other than the six signal slots, errors and node_times; a detector
\* that ends changes nothing but its own result; and the merge gives a slot
\* only the signal its own detector returned.
C34_DetectorsFrame ==
  [][ pc = "parallel_detectors" =>
        /\ UNCHANGED << inputVars, precheckVars, decompositionVars, aggregationVars,
                        riskVars, explanation, recommendations, end_time >>
        /\ \A k \in SignalKeySet :
             (tasks[k].status = "pending" /\ tasks'[k] # tasks[k]) =>
               /\ \A other \in SignalKeySet \ {k} : tasks'[other] = tasks[other]
               /\ UNCHANGED << signals, errors, node_times >>
        /\ \A k \in SignalKeySet :
             signals'[k] # signals[k] =>
               /\ tasks[k].status = "returned"
               /\ signals'[k] = tasks[k].signal ]_vars

\* The stage ended for a run with claims, with a signal stored in the first
\* slot and its total time recorded.
C34_Witness ==
  /\ pc = "aggregation"
  /\ Len(claims) >= 1
  /\ assumptions # {}
  /\ signals["hallucination_signal"] # NoSignal
  /\ signals["hallucination_signal"].detected
  /\ "parallel_detectors_total" \in node_times

\* ------------------------------------------------------------------- C35
\* Stages that have issued their structured model call.
Called == { s \in Stages : backend[s] # NoCall }

\* C35: a step issues at most one structured model call, for a stage that has
\* issued none before, so a run issues at most one per stage and 10 in all; a
\* run that precheck rejects by a rule (question or answer empty after
\* stripping, short error message) has issued none; and once aggregation has
\* retained no failure, neither explanation nor recommendation issues one
\* (risk scoring never does).
C35_ModelCallsBounded ==
  /\ [][ /\ Cardinality({ s \in Stages : backend'[s] # backend[s] }) <= 1
         /\ \A s \in Stages : backend'[s] # backend[s] => backend[s] = NoCall
         /\ pc = "risk_scoring" => backend' = backend ]_vars
  /\ [](Cardinality(Called) <= 10)
  /\ []((/\ InTrace("precheck")
          /\ \/ strip(question).blank
             \/ strip(answer).blank
             \/ ShortError(strip(answer)) /\ ~ShortRefusal(strip(answer)))
         => Called = {})
  /\ []((InTrace("aggregation") /\ pc # "raised" /\ detected_failures = << >>) =>
          (backend["explanation"] = NoCall /\ backend["recommendation"] = NoCall))

\* A finished run in which every one of the ten stages issued its call.
C35_Witness ==
  /\ pc = "done"
  /\ Called = Stages
  /\ Cardinality(Stages) = 10

C37_RejectionHasReason ==
  InTrace("precheck") =>
    /\ ~precheck_passed => precheck_failure_reason # None
    /\ precheck_passed => precheck_failure_reason = None

\* ------------------------------------------------------------------- C38
\* What the backend answered the detector of slot k, NoCall when the
\* detector raised before it called.
OutputOf(k) == backend[DetectorNodeOf[k]]

\* C38: when the stage hands over to aggregation, each slot, the errors the
\* stage added and the keys of node_times are given by the six detectors'
\* outputs alone, whatever the order they ended in; and while the stage runs,
\* every detector that has not ended can take its step, whichever of the
\* others have ended.
C38_MergeIgnoresCompletionOrder ==
  /\ (pc = "aggregation" /\ InTrace("parallel_detectors")) =>
       /\ \A k \in SignalKeySet :
            IF OutputOf(k) = NoCall
            THEN /\ signals[k] = NoSignal
                 /\ tasks[k].status = "raised"
            ELSE /\ signals[k].failure_type = FailureTypeOf[k]
                 /\ IF OutputOf(k).kind = "parsed"
                    THEN /\ signals[k].detected = OutputOf(k).detected
                         /\ signals[k].confidence = OutputOf(k).confidence
                         /\ signals[k].severity = OutputOf(k).severity
                    ELSE signals[k] = _create_default_signal(k)
       /\ Cardinality({ i \in 1..Len(errors) : errors[i] = ErrorEntry("parallel_detectors") })
            = Cardinality({ k \in SignalKeySet : OutputOf(k) = NoCall })
       /\ \A k \in SignalKeySet :
            DetectorNodeOf[k] \in node_times <=> OutputOf(k) # NoCall
       /\ "parallel_detectors_total" \in node_times
  /\ \A k \in SignalKeySet :
       (pc = "parallel_detectors" /\ tasks[k].status = "pending") => ENABLED detector(k)

\* The detector handed to gather last has ended while the first five have not.
C38_Witness ==
  /\ pc = "parallel_detectors"
  /\ tasks["underspec_signal"].status = "returned"
  /\ \A k \in SignalKeySet \ {"underspec_signal"} : tasks[k].status = "pending"

\* ------------------------------------------------------------------- C39
\* The domains from the smallest default multiplier to the largest.
MultiplierChain == << "general", "code", "finance", "legal", "medical" >>

ChainIndex(d) == CHOOSE i \in 1..Len(MultiplierChain) : MultiplierChain[i] = d

LevelRank == [ low |-> 0, medium |-> 1, high |-> 2, critical |-> 3 ]

\* detected_failures without its entry i
Without(failures, i) ==
  [ j \in 1..(Len(failures) - 1) |-> IF j < i THEN failures[j] ELSE failures[j + 1] ]

\* risk_score risk_scoring_node gives these failures in domain d
ScoreOf(failures, d) == RoundTo(CapRisk(TotalRisk(failures, d)), 10000)

\* C39: the risk_score risk_scoring_node hands on is not below the score of
\* the same retained failures in a domain earlier in the chain general, code,
\* finance, legal, medical and not above their score in a later one; and it
\* and the risk_level are not below those of the retained failures less any
\* one.
C39_RiskMonotone ==
  (pc = "explanation" /\ InTrace("risk_scoring")) =>
    /\ \A d \in DOMAIN domain_multipliers :
         /\ ChainIndex(d) <= ChainIndex(domain) =>
              ScoreOf(detected_failures, d) <= risk_score
         /\ ChainIndex(d) >= ChainIndex(domain) =>
              ScoreOf(detected_failures, d) >= risk_score
    /\ \A i \in 1..Len(detected_failures) :
         /\ ScoreOf(Without(detected_failures, i), domain) <= risk_score
         /\ LevelRank[RiskLevel(CapRisk(TotalRisk(Without(detected_failures, i), domain)))]
              <= LevelRank[risk_level]

\* A scored run in the domain medical with two or more retained failures
\* whose score lies strictly above that of every other domain, each of those
\* strictly above the one before it in the chain, and strictly above the
\* score without its last failure.
C39_Witness ==
  /\ pc = "explanation"
  /\ InTrace("risk_scoring")
  /\ domain = "medical"
  /\ Len(detected_failures) >= 2
  /\ \A i \in 1..(Len(MultiplierChain) - 1) :
       ScoreOf(detected_failures, MultiplierChain[i])
         < ScoreOf(detected_failures, MultiplierChain[i + 1])
  /\ risk_score = ScoreOf(detected_failures, "medical")
  /\ ScoreOf(Without(detected_failures, Len(detected_failures)), domain) < risk_score

====
